---- MODULE Spec2Model ----
(***************************************************************************)
(* Asset-inventory backend (maniaace/catproj): the InsightVM scanner       *)
(* client, the asset / vulnerability sync handlers, the team hierarchy and *)
(* access checks, and the review-compliance calculations, as one state     *)
(* machine over the relational store.                                      *)
(*                                                                         *)
(* Representation.  Python None is NoTeam (0) for a team / user / owner    *)
(* reference, NoDate (-1) for a timestamp and the string "<null>" for a    *)
(* JSON null; a missing JSON key is the string "<absent>".  Time is        *)
(* counted in ticks, Day ticks to the day.                                 *)
(***************************************************************************)
EXTENDS Integers, Sequences, FiniteSets, TLC

VARIABLES
    teams,      \* rows of table teams
    users,      \* rows of table users
    assets,     \* committed rows of table assets
    vulns,      \* committed rows of table vulnerabilities
    nextId,     \* the serial primary-key counters, one per table
    now,        \* datetime.now()
    call,       \* the request being answered: endpoint, actor, inputs
    reply,      \* the HTTP response of that request
    exchanges,  \* log of the scanner client's requests: <<outcome, value>>
    scanner,    \* what the scanner holds: its asset listing and, per
                \* scanner asset id, that asset's vulnerability listing
    runs        \* the sync requests that worker threads are in the middle
                \* of: per request its position in the record loop

vars ==
    <<teams, users, assets, vulns, nextId, now, call, reply, exchanges, scanner,
      runs>>

NoTeam == 0
NoDate == -1
Absent == "<absent>"
Null == "<null>"

Idle == [op |-> "idle"]

\* A scanner with nothing in it.
\* No request is in the middle of a record loop.
NoRuns == << >>

EmptyScanner == [assets |-> << >>, vulns |-> << >>]

(***************************************************************************)
(* Scanner API client: InsightVMClient._make_request                       *)
(***************************************************************************)

\* What the HTTP exchange with the scanner can come to: a response with a
\* status code and a body, or one of the requests exceptions.
HttpOutcomes ==
    [kind : {"response"},
     status : {200, 204, 304, 400, 401, 403, 404, 409, 422, 429, 500, 503},
     body : {"object", "text", "empty"}, message : {Absent, "size too large"}]
    \cup [kind : {"timeout", "connection", "request_exception"}, status : {0},
          body : {"empty"}, message : {Absent}]

Value(tag, msg, code, detail) ==
    [tag |-> tag, msg |-> msg, code |-> code, detail |-> detail]

\* error_detail of the 422 branch: the "message" member of a JSON object
\* body, else the default text.
error_detail_422(x) ==
    IF x.body = "object" /\ x.message # Absent
        THEN x.message
        ELSE "Invalid request parameters"

\* The except clauses with only "except requests.exceptions.Timeout": any
\* other exception of requests.request leaves _make_request.
request_exception_value_only_timeout_caught(x) ==
    CASE x.kind = "timeout" ->
            Value("error", "InsightVM API request timed out", 0, "")
      [] OTHER -> Value("raise", x.kind, 0, "")

\* What the except clauses of _make_request return when requests.request
\* raises.
request_exception_value(x) ==
    CASE x.kind = "timeout" ->
            Value("error", "InsightVM API request timed out", 0, "")
      [] x.kind = "connection" ->
            Value("error", "Failed to connect to InsightVM API", 0, "")
      [] OTHER -> Value("error", "InsightVM API error", 0, "")

\* What _make_request returns for a response: the status branches, then
\* raise_for_status, then the body.
response_value(x) ==
    CASE x.status = 401 ->
            Value("error", "Invalid InsightVM credentials or unauthorized access", 0, "")
      [] x.status = 403 ->
            Value("error", "Insufficient permissions for this InsightVM operation", 0, "")
      [] x.status = 404 ->
            Value("error", "InsightVM resource not found", 0, "")
      [] x.status = 422 ->
            Value("error", "InsightVM API 422 error", 0, error_detail_422(x))
      [] x.status = 429 ->
            Value("error", "InsightVM API rate limit exceeded. Please try again later", 0, "")
      [] x.status >= 500 ->
            Value("error", "InsightVM API server error", x.status, "")
      [] x.status >= 400 /\ x.status < 500
            /\ x.status \notin {401, 403, 404, 422, 429} ->
            Value("error", "InsightVM API HTTP error", x.status, "")
      [] OTHER ->
            IF x.body = "empty"
                THEN Value("message", "Operation completed successfully", 0, "")
                ELSE IF x.body = "object"
                    THEN Value("json", "", 0, "")
                    ELSE Value("raw", "", 0, "")

\* The dict _make_request returns for exchange outcome x.  tag "error" is a
\* dict with an "error" key; "json" the decoded body; "raw" the
\* {"raw_response": text} dict; "message" the empty-body success dict.
make_request(x) ==
    IF x.kind = "response" THEN response_value(x) ELSE request_exception_value(x)

\* One request through the client; the log keeps the last MaxExchanges.
MaxExchanges == 2

Request(x) ==
    /\ Len(exchanges) < MaxExchanges
    /\ exchanges' = Append(exchanges, <<x, make_request(x)>>)
    /\ UNCHANGED <<teams, users, assets, vulns, nextId, now, call, reply, scanner, runs>>

(***************************************************************************)
(* The store after init_data.create_initial_data, and row helpers          *)
(***************************************************************************)

InitTeams ==
    { [id |-> 1, name |-> "IT Security Team", parent_team_id |-> NoTeam],
      [id |-> 2, name |-> "Network Operations", parent_team_id |-> NoTeam] }

\* The sample user is built while the sample team is pending in the session
\* and has no id yet, so the user is stored without a team.
InitUsers ==
    { [id |-> 1, is_admin |-> TRUE, team_id |-> 1],
      [id |-> 2, is_admin |-> FALSE, team_id |-> NoTeam] }

TeamIds == {t.id : t \in teams}

Reply(status, body) == [status |-> status, body |-> body]

\* errors[:10] of the reports.
ErrorsCap == 10

Take(seq, n) == IF Len(seq) <= n THEN seq ELSE SubSeq(seq, 1, n)

\* A member of a request body, or the default of the schema when the body
\* does not carry it.
Member(a, key, default) == IF key \in DOMAIN a THEN a[key] ELSE default

\* The row models.Asset(**asset.dict()) gets on insert: the serial id, the
\* AssetBase defaults for what the body leaves out, and last_reviewed_date
\* and updated_at left NULL.
AssetRow(id, a) ==
    [id |-> id, name |-> a.name, ip_address |-> a.ip_address,
     os_version |-> a.os_version, team_id |-> a.team_id,
     owner_id |-> a.owner_id, last_reviewed_date |-> NoDate,
     public_facing |-> Member(a, "public_facing", FALSE),
     environment |-> Member(a, "environment", "dev"),
     criticality |-> Member(a, "criticality", "medium"),
     updated_at |-> NoDate]

\* The table without the foreign key from assets.team_id to teams.id.
AssetRowValid_no_team_reference(r) ==
    /\ r.name # Null
    /\ r.ip_address # Null
    /\ r.owner_id = NoTeam \/ r.owner_id \in {u.id : u \in users}

\* NOT NULL and FOREIGN KEY constraints of table assets.
AssetRowValid(r) ==
    /\ r.name # Null
    /\ r.ip_address # Null
    /\ r.team_id \in TeamIds
    /\ r.owner_id = NoTeam \/ r.owner_id \in {u.id : u \in users}

\* POST /assets/ : main.create_asset over crud.create_asset.  A caller
\* without a team has team_id None, which differs from every team_id of a
\* body.  The INSERT the table refuses has drawn its serial id.
create_asset(u, a) ==
    /\ call' = [op |-> "create_asset", actor |-> u, at |-> now]
    /\ IF ~u.is_admin /\ (u.team_id = NoTeam \/ u.team_id # a.team_id)
        THEN /\ reply' = Reply(403, "Can only create assets for your own team")
             /\ UNCHANGED <<assets, nextId>>
        ELSE IF ~AssetRowValid(AssetRow(nextId.asset, a))
            THEN /\ reply' = Reply(500, "IntegrityError")
                 /\ nextId' = [nextId EXCEPT !.asset = @ + 1]
                 /\ UNCHANGED assets
            ELSE /\ assets' = assets \cup {AssetRow(nextId.asset, a)}
                 /\ nextId' = [nextId EXCEPT !.asset = @ + 1]
                 /\ reply' = Reply(200, AssetRow(nextId.asset, a))
    /\ UNCHANGED <<teams, users, vulns, now, exchanges, scanner, runs>>

\* crud.get_asset / get_team / get_user: the row with that id.
RowById(rows, id) == CHOOSE r \in rows : r.id = id

HasRow(rows, id) == \E r \in rows : r.id = id

\* crud.get_assets called with a team filter for every caller that is not an
\* admin, the caller's team_id being a team or None.
get_assets_filter_always(team_id) ==
    {a \in assets : a.team_id = team_id}

\* crud.get_assets: "if team_id:" filters on the team, and leaves the query
\* unfiltered for None.
get_assets(team_id) ==
    IF team_id # NoTeam
        THEN {a \in assets : a.team_id = team_id}
        ELSE assets

\* GET /assets/
read_assets(u) ==
    /\ call' = [op |-> "read_assets", actor |-> u, at |-> now]
    /\ reply' = Reply(200,
                    IF u.is_admin THEN get_assets(NoTeam) ELSE get_assets(u.team_id))
    /\ UNCHANGED <<teams, users, assets, vulns, nextId, now, exchanges, scanner, runs>>

\* GET /assets/{asset_id}
read_asset(u, asset_id) ==
    /\ call' = [op |-> "read_asset", actor |-> u, asset_id |-> asset_id, at |-> now]
    /\ reply' =
        IF ~HasRow(assets, asset_id) THEN Reply(404, "Asset not found")
        ELSE IF ~u.is_admin /\ u.team_id # RowById(assets, asset_id).team_id
            THEN Reply(403, "Access denied")
            ELSE Reply(200, {RowById(assets, asset_id)})
    /\ UNCHANGED <<teams, users, assets, vulns, nextId, now, exchanges, scanner, runs>>

\* crud.update_asset: every field the AssetCreate body carries is set on the
\* row; an UPDATE that changes the row stamps updated_at (onupdate).
UpdatedAssetRow(r, a) ==
    LET set == [r EXCEPT !.name = a.name, !.ip_address = a.ip_address,
                         !.os_version = a.os_version, !.team_id = a.team_id,
                         !.owner_id = a.owner_id,
                         !.public_facing = Member(a, "public_facing", @),
                         !.environment = Member(a, "environment", @),
                         !.criticality = Member(a, "criticality", @)]
    IN  IF set = r THEN r ELSE [set EXCEPT !.updated_at = now]

\* PUT /assets/{asset_id}
update_asset(u, asset_id, a) ==
    /\ call' = [op |-> "update_asset", actor |-> u, asset_id |-> asset_id,
                target |-> {r \in assets : r.id = asset_id},
                at |-> now]
    /\ IF ~HasRow(assets, asset_id)
        THEN /\ reply' = Reply(404, "Asset not found")
             /\ UNCHANGED assets
        ELSE LET r == RowById(assets, asset_id)
             IN  IF ~u.is_admin /\ u.team_id # r.team_id
                    THEN /\ reply' = Reply(403, "Access denied")
                         /\ UNCHANGED assets
                    ELSE IF ~AssetRowValid(UpdatedAssetRow(r, a))
                        THEN /\ reply' = Reply(500, "IntegrityError")
                             /\ UNCHANGED assets
                        ELSE /\ assets' = (assets \ {r}) \cup {UpdatedAssetRow(r, a)}
                             /\ reply' = Reply(200, {UpdatedAssetRow(r, a)})
    /\ UNCHANGED <<teams, users, vulns, nextId, now, exchanges, scanner, runs>>

\* DELETE /assets/{asset_id}; a vulnerability row of the asset keeps the
\* row from being deleted (asset_id is NOT NULL).
delete_asset(u, asset_id) ==
    /\ call' = [op |-> "delete_asset", actor |-> u, asset_id |-> asset_id,
                target |-> {r \in assets : r.id = asset_id}, at |-> now]
    /\ IF ~HasRow(assets, asset_id)
        THEN /\ reply' = Reply(404, "Asset not found")
             /\ UNCHANGED assets
        ELSE LET r == RowById(assets, asset_id)
             IN  IF ~u.is_admin /\ u.team_id # r.team_id
                    THEN /\ reply' = Reply(403, "Access denied")
                         /\ UNCHANGED assets
                    ELSE IF \E v \in vulns : v.asset_id = asset_id
                        THEN /\ reply' = Reply(500, "IntegrityError")
                             /\ UNCHANGED assets
                        ELSE /\ assets' = assets \ {r}
                             /\ reply' = Reply(200, "Asset deleted successfully")
    /\ UNCHANGED <<teams, users, vulns, nextId, now, exchanges, scanner, runs>>

\* One pass of "for index, row in df.iterrows()" of upload_assets: the row's
\* team must exist and its address must be new, then crud.create_asset
\* commits the row with the caller as owner.  st holds the committed rows,
\* the serial counter, the rows created, the errors and the session being
\* usable.
upload_asset_row(st, row, u, index) ==
    LET new == AssetRow(st.next,
                    [name |-> row.name, ip_address |-> row.ip_address,
                     os_version |-> Null, team_id |-> row.team_id,
                     owner_id |-> u.id, public_facing |-> FALSE])
    IN  IF ~st.active
            THEN [st EXCEPT !.errors =
                    Append(@, <<index + 2, "PendingRollbackError">>)]
        ELSE IF row.team_id \notin TeamIds
            THEN [st EXCEPT !.errors = Append(@, <<index + 2, "Team not found">>)]
        ELSE IF \E a \in st.rows : a.ip_address = row.ip_address
            THEN [st EXCEPT !.errors = Append(@, <<index + 2, "already exists">>)]
        ELSE IF ~AssetRowValid(new)
            THEN [st EXCEPT !.active = FALSE, !.next = @ + 1,
                            !.errors = Append(@, <<index + 2, "IntegrityError">>)]
        ELSE [st EXCEPT !.rows = @ \cup {new}, !.next = @ + 1,
                        !.created = @ + 1]

RECURSIVE upload_assets_loop(_, _, _, _)
upload_assets_loop(st, rows, u, index) ==
    IF rows = << >>
        THEN st
        ELSE upload_assets_loop(upload_asset_row(st, Head(rows), u, index),
                                Tail(rows), u, index + 1)

\* POST /assets/upload.  file is the upload: its name ending in .csv or
\* not, the required columns being there or not, and the rows.  The 400
\* for missing columns is raised inside the try block and leaves through
\* "except Exception" as a 500.
upload_assets(u, file) ==
    /\ call' = [op |-> "upload_assets", actor |-> u, file |-> file, at |-> now]
    /\ IF ~u.is_admin
        THEN /\ reply' = Reply(403, "Admin privileges required for bulk upload")
             /\ UNCHANGED <<assets, nextId>>
        ELSE IF ~file.csv
            THEN /\ reply' = Reply(400, "File must be a CSV")
                 /\ UNCHANGED <<assets, nextId>>
        ELSE IF ~file.columns
            THEN /\ reply' = Reply(500, "Failed to process CSV file: 400: Missing required columns")
                 /\ UNCHANGED <<assets, nextId>>
        ELSE \E done \in {upload_assets_loop(
                            [rows |-> assets, next |-> nextId.asset,
                             created |-> 0, errors |-> << >>, active |-> TRUE],
                            file.rows, u, 0)} :
                /\ assets' = done.rows
                /\ nextId' = [nextId EXCEPT !.asset = done.next]
                /\ reply' = Reply(200,
                        [created_count |-> done.created,
                         error_count |-> Len(done.errors),
                         errors |-> Take(done.errors, ErrorsCap)])
    /\ UNCHANGED <<teams, users, vulns, now, exchanges, scanner, runs>>

\* POST /users/ : crud.create_user; the new user's team is a team or None.
\* The INSERT the table refuses has drawn its serial id.
create_user(u, is_admin, team_id) ==
    /\ call' = [op |-> "create_user", actor |-> u, at |-> now]
    /\ IF ~u.is_admin
        THEN /\ reply' = Reply(403, "Not enough permissions")
             /\ UNCHANGED <<users, nextId>>
        ELSE IF team_id # NoTeam /\ team_id \notin TeamIds
            THEN /\ reply' = Reply(500, "IntegrityError")
                 /\ nextId' = [nextId EXCEPT !.user = @ + 1]
                 /\ UNCHANGED users
            ELSE /\ users' = users \cup
                    {[id |-> nextId.user, is_admin |-> is_admin, team_id |-> team_id]}
                 /\ nextId' = [nextId EXCEPT !.user = @ + 1]
                 /\ reply' = Reply(200, nextId.user)
    /\ UNCHANGED <<teams, assets, vulns, now, exchanges, scanner, runs>>

\* PUT /users/{user_id}/ with a body that sets team_id.
update_user(u, user_id, team_id) ==
    /\ call' = [op |-> "update_user", actor |-> u, user_id |-> user_id, at |-> now]
    /\ IF ~u.is_admin
        THEN /\ reply' = Reply(403, "Not enough permissions")
             /\ UNCHANGED users
        ELSE IF ~HasRow(users, user_id)
            THEN /\ reply' = Reply(404, "User not found")
                 /\ UNCHANGED users
            ELSE IF team_id # NoTeam /\ team_id \notin TeamIds
                THEN /\ reply' = Reply(500, "IntegrityError")
                     /\ UNCHANGED users
                ELSE /\ users' = (users \ {RowById(users, user_id)})
                        \cup {[RowById(users, user_id) EXCEPT !.team_id = team_id]}
                     /\ reply' = Reply(200, user_id)
    /\ UNCHANGED <<teams, assets, vulns, nextId, now, exchanges, scanner, runs>>

\* DELETE /users/{user_id}/ : crud.delete_user deletes the row; the unit of
\* work empties owner_id of the assets the user owns (relationship
\* owned_assets without cascade), and that UPDATE stamps updated_at
\* (onupdate=func.now()).
delete_user(u, user_id) ==
    /\ call' = [op |-> "delete_user", actor |-> u, user_id |-> user_id, at |-> now]
    /\ IF ~u.is_admin
        THEN /\ reply' = Reply(403, "Not enough permissions")
             /\ UNCHANGED <<users, assets>>
        ELSE IF user_id = u.id
            THEN /\ reply' = Reply(400, "Cannot delete your own account")
                 /\ UNCHANGED <<users, assets>>
        ELSE IF ~HasRow(users, user_id)
            THEN /\ reply' = Reply(404, "User not found")
                 /\ UNCHANGED <<users, assets>>
            ELSE /\ users' = users \ {RowById(users, user_id)}
                 /\ assets' = {IF a.owner_id = user_id
                                    THEN [a EXCEPT !.owner_id = NoTeam,
                                                   !.updated_at = now]
                                    ELSE a : a \in assets}
                 /\ reply' = Reply(200, "User deleted successfully")
    /\ UNCHANGED <<teams, vulns, nextId, now, exchanges, scanner, runs>>

(***************************************************************************)
(* Team hierarchy                                                          *)
(***************************************************************************)

\* crud.get_sub_teams
get_sub_teams(parent_team_id) ==
    {t \in teams : t.parent_team_id = parent_team_id}

\* POST /teams/ : crud.create_team inserts the row; the parent reference is
\* a foreign key.  The INSERT the table refuses has drawn its serial id.
create_team(u, t) ==
    /\ call' = [op |-> "create_team", actor |-> u, at |-> now]
    /\ IF ~u.is_admin
        THEN /\ reply' = Reply(403, "Not enough permissions")
             /\ UNCHANGED <<teams, nextId>>
        ELSE IF t.parent_team_id # NoTeam /\ t.parent_team_id \notin TeamIds
            THEN /\ reply' = Reply(500, "IntegrityError")
                 /\ nextId' = [nextId EXCEPT !.team = @ + 1]
                 /\ UNCHANGED teams
            ELSE /\ teams' = teams \cup
                    {[id |-> nextId.team, name |-> t.name,
                      parent_team_id |-> t.parent_team_id]}
                 /\ nextId' = [nextId EXCEPT !.team = @ + 1]
                 /\ reply' = Reply(200, nextId.team)
    /\ UNCHANGED <<users, assets, vulns, now, exchanges, scanner, runs>>

\* PUT /teams/{team_id}/ : the parent, when given, must exist; then
\* crud.update_team sets name and parent on the row.
update_team(u, team_id, t) ==
    /\ call' = [op |-> "update_team", actor |-> u, team_id |-> team_id, at |-> now]
    /\ IF ~u.is_admin
        THEN /\ reply' = Reply(403, "Not enough permissions")
             /\ UNCHANGED teams
        ELSE IF t.parent_team_id # NoTeam /\ t.parent_team_id \notin TeamIds
            THEN /\ reply' = Reply(404, "Parent team not found")
                 /\ UNCHANGED teams
            ELSE IF ~HasRow(teams, team_id)
                THEN /\ reply' = Reply(404, "Team not found")
                     /\ UNCHANGED teams
                ELSE /\ teams' = (teams \ {RowById(teams, team_id)}) \cup
                        {[id |-> team_id, name |-> t.name,
                          parent_team_id |-> t.parent_team_id]}
                     /\ reply' = Reply(200, team_id)
    /\ UNCHANGED <<users, assets, vulns, nextId, now, exchanges, scanner, runs>>

\* crud.delete_team with the assets check left out.
crud_delete_team_error_no_assets_check(team_id) ==
    IF get_sub_teams(team_id) # {}
        THEN [error |-> "sub-teams",
              names |-> {t.name : t \in get_sub_teams(team_id)}, count |-> 0]
    ELSE IF Cardinality({x \in users : x.team_id = team_id}) > 0
        THEN [error |-> "users", names |-> {},
              count |-> Cardinality({x \in users : x.team_id = team_id})]
    ELSE [error |-> "none", names |-> {}, count |-> 0]

\* The ValueError crud.delete_team raises for an existing team, "none" when
\* every check passes: sub-teams first, then assets, then users.
crud_delete_team_error(team_id) ==
    IF get_sub_teams(team_id) # {}
        THEN [error |-> "sub-teams",
              names |-> {t.name : t \in get_sub_teams(team_id)}, count |-> 0]
    ELSE IF Cardinality({a \in assets : a.team_id = team_id}) > 0
        THEN [error |-> "assets", names |-> {},
              count |-> Cardinality({a \in assets : a.team_id = team_id})]
    ELSE IF Cardinality({x \in users : x.team_id = team_id}) > 0
        THEN [error |-> "users", names |-> {},
              count |-> Cardinality({x \in users : x.team_id = team_id})]
    ELSE [error |-> "none", names |-> {}, count |-> 0]

\* DELETE /teams/{team_id}/ : a ValueError of crud.delete_team is answered
\* 400 with its text; the 404 for an unknown team is raised inside the try
\* block and leaves through "except Exception" as a 500.
delete_team(u, team_id) ==
    /\ call' = [op |-> "delete_team", actor |-> u, team_id |-> team_id, at |-> now]
    /\ IF ~u.is_admin
        THEN /\ reply' = Reply(403, "Not enough permissions")
             /\ UNCHANGED teams
        ELSE IF ~HasRow(teams, team_id)
            THEN /\ reply' = Reply(500, "Internal server error: 404: Team not found")
                 /\ UNCHANGED teams
            ELSE IF crud_delete_team_error(team_id).error # "none"
                THEN /\ reply' = Reply(400, crud_delete_team_error(team_id))
                     /\ UNCHANGED teams
                ELSE /\ teams' = teams \ {RowById(teams, team_id)}
                     /\ reply' = Reply(200, "Team deleted successfully")
    /\ UNCHANGED <<users, assets, vulns, nextId, now, exchanges, scanner, runs>>

(***************************************************************************)
(* Review compliance calculator                                            *)
(***************************************************************************)

Day == 2

\* timedelta.days of (t - reviewed): whole days, rounded down.
days_since(reviewed, t) == (t - reviewed) \div Day

\* The class get_assets_grouped_by_team counts an asset in, at time t.
review_class(reviewed, t) ==
    IF reviewed = NoDate THEN "never_reviewed"
    ELSE IF days_since(reviewed, t) > 60 THEN "overdue"
    ELSE IF days_since(reviewed, t) > 45 THEN "warning"
    ELSE "current"

ReviewClasses == {"never_reviewed", "overdue", "warning", "current"}

\* "review_status" of one team in get_assets_grouped_by_team.
review_status_counts(tid, t) ==
    [c \in ReviewClasses |->
        Cardinality({a \in assets :
            a.team_id = tid /\ review_class(a.last_reviewed_date, t) = c})]

\* GET /assets/grouped-by-team.  last_reviewed_date is a column
\* DateTime(timezone=True) of a PostgreSQL table and is read back with its
\* time zone; datetime.now() has none, so the subtraction of the loop
\* raises TypeError for the first reviewed asset of a team, and the
\* handler has no except clause.
get_assets_grouped_by_team(u) ==
    /\ call' = [op |-> "get_assets_grouped_by_team", actor |-> u, at |-> now]
    /\ reply' =
        IF ~u.is_admin
            THEN Reply(403, "Admin privileges required")
        ELSE IF \E a \in assets :
                    a.team_id \in TeamIds /\ a.last_reviewed_date # NoDate
            THEN Reply(500, "Internal Server Error")
            ELSE Reply(200,
                [tid \in TeamIds |->
                    [total_assets |-> Cardinality({a \in assets : a.team_id = tid}),
                     review_status |-> review_status_counts(tid, now)]])
    /\ UNCHANGED <<teams, users, assets, vulns, nextId, now, exchanges, scanner, runs>>

\* POST /assets/{asset_id}/review
mark_asset_reviewed(u, asset_id) ==
    /\ call' = [op |-> "mark_asset_reviewed", actor |-> u, asset_id |-> asset_id,
                target |-> {r \in assets : r.id = asset_id}, at |-> now]
    /\ IF ~\E a \in assets : a.id = asset_id
        THEN /\ reply' = Reply(404, "Asset not found")
             /\ UNCHANGED assets
        ELSE LET a == CHOOSE r \in assets : r.id = asset_id
             IN  IF ~u.is_admin /\ u.team_id # a.team_id
                    THEN /\ reply' = Reply(403, "Access denied")
                         /\ UNCHANGED assets
                    ELSE /\ assets' = (assets \ {a})
                                \cup {[a EXCEPT !.last_reviewed_date = now,
                                                !.updated_at = now]}
                         /\ reply' = Reply(200, now)
    /\ UNCHANGED <<teams, users, vulns, nextId, now, exchanges, scanner, runs>>

\* Time passes; the response of the previous request has been delivered.
Tick(t) ==
    /\ t > now
    /\ now' = t
    /\ call' = Idle
    /\ reply' = Idle
    /\ UNCHANGED <<teams, users, assets, vulns, nextId, exchanges, scanner, runs>>

\* GET /assets/export.  The route is registered after
\* GET /assets/{asset_id}, which matches the path first and refuses
\* "export" as an asset id; export_assets is not called.
export_assets(u, team_id, review_status) ==
    /\ call' = [op |-> "export_assets", actor |-> u, team_id |-> team_id,
                review_status |-> review_status, at |-> now]
    /\ reply' = Reply(422, "asset_id: value is not a valid integer")
    /\ UNCHANGED <<teams, users, assets, vulns, nextId, now, exchanges, scanner, runs>>

\* GET /teams/review-compliance.  The team_stats query is built with
\* func.case(..., else_=0): func is the generator of SQL function calls, not
\* the CASE construct, so building the query (or the database, on a
\* function named case) raises for every administrator's call; the handler
\* has no except clause and the loop over team_stats is never entered.
get_team_review_compliance(u, days_threshold) ==
    /\ call' = [op |-> "get_team_review_compliance", actor |-> u,
                days_threshold |-> days_threshold, at |-> now]
    /\ reply' =
        IF ~u.is_admin
            THEN Reply(403, "Admin privileges required")
            ELSE Reply(500, "Internal Server Error")
    /\ UNCHANGED <<teams, users, assets, vulns, nextId, now, exchanges, scanner, runs>>

(***************************************************************************)
(* Specifications of the review calculator: assets are registered for the  *)
(* initial teams and reviewed, and time passes between the instants where  *)
(* a review age crosses a threshold.  SpecReview follows the age of a few  *)
(* assets through every threshold; SpecCompliance follows the overdue       *)
(* share of the teams.                                                     *)
(***************************************************************************)

MaxReviewAssets == 3
MaxComplianceAssets == 4

ReviewInstants ==
    {0, 20 * Day, 45 * Day, 45 * Day + 1, 46 * Day, 50 * Day, 60 * Day,
     60 * Day + 1, 61 * Day, 70 * Day}

ReviewFilters == {Absent, "never", "overdue", "warning", "current"}

ReviewAssetInputs ==
    [name : {"srv"}, ip_address : {"10.0.0.1"}, os_version : {"Linux"},
     team_id : {1}, owner_id : {NoTeam}]

ComplianceAssetInputs ==
    [name : {"srv"}, ip_address : {"10.0.0.1"}, os_version : {"Linux"},
     team_id : {1, 2}, owner_id : {NoTeam}]

InitStore ==
    /\ teams = InitTeams
    /\ users = InitUsers
    /\ assets = {}
    /\ vulns = {}
    /\ nextId = [team |-> 3, user |-> 3, asset |-> 1, vuln |-> 1]
    /\ now = 0
    /\ call = Idle
    /\ reply = Idle
    /\ exchanges = << >>
    /\ runs = NoRuns
    /\ scanner = EmptyScanner

NextReview ==
    \/ \E t \in ReviewInstants : Tick(t)
    \/ \E u \in users, a \in ReviewAssetInputs :
        /\ Cardinality(assets) < MaxReviewAssets
        /\ create_asset(u, a)
    \/ \E u \in users, a \in assets : mark_asset_reviewed(u, a.id)
    \/ \E u \in users : get_assets_grouped_by_team(u)
    \/ \E u \in users, f \in ReviewFilters : export_assets(u, NoTeam, f)

SpecReview == InitStore /\ [][NextReview]_vars

NextCompliance ==
    \/ \E t \in {0, 60 * Day, 60 * Day + 1} : Tick(t)
    \/ \E u \in users, a \in ComplianceAssetInputs :
        /\ Cardinality(assets) < MaxComplianceAssets
        /\ create_asset(u, a)
    \/ \E u \in users, a \in assets : mark_asset_reviewed(u, a.id)
    \/ \E u \in users, d \in {45, 60} : get_team_review_compliance(u, d)

SpecCompliance == InitStore /\ [][NextCompliance]_vars

(***************************************************************************)
(* Claims about the review calculator (SpecReview, SpecCompliance)         *)
(***************************************************************************)

\* Whole days in an age of n ticks.
WholeDays(n) == CHOOSE d \in 0..(n + 1) : d * Day <= n /\ n < (d + 1) * Day

\* The class the thresholds assign: null, <= 45, 46..60, > 60.
ThresholdClass(reviewed, t) ==
    IF reviewed = NoDate THEN "never_reviewed"
    ELSE IF WholeDays(t - reviewed) <= 45 THEN "current"
    ELSE IF WholeDays(t - reviewed) <= 60 THEN "warning"
    ELSE "overdue"

\* C9: the staleness class is a total function of the days since the last
\* review: never_reviewed for no review, current up to 45 days, warning from
\* 46 to 60, overdue above 60.  An administrator's request for the assets
\* by team is answered with every asset of a team counted in exactly the
\* class of its age, so that the four counts add up to the team's assets.
C9_ReviewClassification ==
    (call.op = "get_assets_grouped_by_team" /\ call.actor.is_admin) =>
        /\ reply.status = 200
        /\ \A tid \in DOMAIN reply.body :
            /\ \A c \in ReviewClasses :
                reply.body[tid].review_status[c] =
                    Cardinality({a \in assets :
                        /\ a.team_id = tid
                        /\ ThresholdClass(a.last_reviewed_date, call.at) = c})
            /\ reply.body[tid].review_status["never_reviewed"]
                + reply.body[tid].review_status["current"]
                + reply.body[tid].review_status["warning"]
                + reply.body[tid].review_status["overdue"]
                    = reply.body[tid].total_assets

\* C10: an administrator's compliance request is answered with one entry per
\* team, whose compliance_rate is (total - overdue) / total * 100 (to two
\* decimals, in hundredths here) for a team with assets and 100 for a team
\* without; the team is in flagged_teams, with status "flagged", exactly
\* when that rate is below 80, and has status "compliant" otherwise.
C10_ComplianceRate ==
    (call.op = "get_team_review_compliance" /\ call.actor.is_admin) =>
        /\ reply.status = 200
        /\ \A t \in teams : \E d \in reply.body.teams : d.team_id = t.id
        /\ \A d \in reply.body.teams :
            /\ d.total_assets =
                Cardinality({a \in assets : a.team_id = d.team_id})
            /\ d.overdue_assets <= d.total_assets
            /\ IF d.total_assets = 0
                THEN d.compliance_rate = 10000
                ELSE \* within half a hundredth of the exact rate
                     /\ 2 * (d.compliance_rate * d.total_assets
                            - (d.total_assets - d.overdue_assets) * 10000)
                            <= d.total_assets
                     /\ 2 * ((d.total_assets - d.overdue_assets) * 10000
                            - d.compliance_rate * d.total_assets)
                            <= d.total_assets
            /\ (d \in reply.body.flagged_teams) <=>
                /\ d.total_assets > 0
                /\ (d.total_assets - d.overdue_assets) * 100
                        < 80 * d.total_assets
            /\ d.status =
                IF d \in reply.body.flagged_teams THEN "flagged" ELSE "compliant"

(***************************************************************************)
(* Specification of the scanner client alone: requests with every outcome  *)
(***************************************************************************)

NextClient == \E x \in HttpOutcomes : Request(x)

SpecClient == InitStore /\ [][NextClient]_vars

\* The failures C8 lists and the class of each.
TransportOrHttpFailure(x) ==
    x.kind \in {"timeout", "connection"} \/ (x.kind = "response" /\ x.status >= 400)

FailureClass(x) ==
    CASE x.kind # "response" -> x.kind
      [] x.status \in {401, 403, 404, 422, 429} -> "status"
      [] x.status >= 500 -> "5xx"
      [] OTHER -> "4xx"

SameFailureClass(x, y) ==
    /\ FailureClass(x) = FailureClass(y)
    /\ FailureClass(x) = "status" => x.status = y.status

\* C8: for 401, 403, 404, 422, 429, any 5xx, any other 4xx, a timeout and a
\* connection failure the request operation returns an error value (it does
\* not raise and does not return a success value), and two failures of
\* different kinds never get the same error value.
C8_RequestNeverRaises ==
    \A i \in 1..Len(exchanges) :
        TransportOrHttpFailure(exchanges[i][1]) =>
            /\ exchanges[i][2].tag = "error"
            /\ \A j \in 1..Len(exchanges) :
                (/\ TransportOrHttpFailure(exchanges[j][1])
                 /\ ~SameFailureClass(exchanges[i][1], exchanges[j][1]))
                    => exchanges[i][2] # exchanges[j][2]

\* Reached: a timeout and a connection failure were both answered with an
\* error value.
C8_Witness ==
    /\ Len(exchanges) = 2
    /\ exchanges[1][1].kind = "timeout"
    /\ exchanges[2][1].kind = "connection"
    /\ exchanges[1][2].tag = "error"
    /\ exchanges[2][2].tag = "error"

(***************************************************************************)
(* Specification of the asset endpoints under the access checks: an admin  *)
(* registers users, and every user calls every asset endpoint.             *)
(***************************************************************************)

MaxUsers == 3
MaxAccessAssets == 2

AccessAssetInputs ==
    [name : {"srv"}, ip_address : {"10.0.0.1"}, os_version : {"Linux"},
     team_id : {1, 2}, owner_id : {NoTeam}]

\* Uploads: a file that is no CSV, one without the required columns, and
\* files of one row for a team that exists or not.
UploadInputs ==
    {[csv |-> FALSE, columns |-> TRUE, rows |-> << >>],
     [csv |-> TRUE, columns |-> FALSE, rows |-> << >>]}
    \cup {[csv |-> TRUE, columns |-> TRUE,
           rows |-> <<[name |-> "srv", ip_address |-> ip, team_id |-> t]>>] :
            ip \in {"10.0.0.1", "10.0.0.9"}, t \in {1, 3}}

NextAccess ==
    \/ \E u \in users, team_id \in {NoTeam} \cup TeamIds :
        /\ Cardinality(users) < MaxUsers
        /\ create_user(u, FALSE, team_id)
    \/ \E u \in users, a \in AccessAssetInputs :
        /\ nextId.asset <= MaxAccessAssets
        /\ create_asset(u, a)
    \/ \E u \in users : read_assets(u)
    \/ \E u \in users, id \in 1..MaxAccessAssets : read_asset(u, id)
    \/ \E u \in users, id \in 1..MaxAccessAssets, a \in AccessAssetInputs :
        update_asset(u, id, a)
    \/ \E u \in users, id \in 1..MaxAccessAssets : delete_asset(u, id)
    \/ \E u \in users, id \in 1..MaxAccessAssets : mark_asset_reviewed(u, id)
    \/ \E u \in users, id \in 1..MaxUsers : delete_user(u, id)
    \/ \E u \in users, file \in UploadInputs :
        /\ nextId.asset <= MaxAccessAssets
        /\ upload_assets(u, file)

SpecAccess == InitStore /\ [][NextAccess]_vars

\* C6: whatever an asset endpoint returns to, or changes for, a user who is
\* not an admin (a user without a team included) is an asset of that user's
\* own team.
C6_AccessRule ==
    (/\ call.op \in {"read_assets", "read_asset", "update_asset",
                     "delete_asset", "mark_asset_reviewed"}
     /\ reply.status = 200
     /\ ~call.actor.is_admin) =>
        /\ call.op \in {"read_assets", "read_asset"} =>
            \A a \in reply.body : a.team_id = call.actor.team_id
        /\ call.op \in {"update_asset", "delete_asset", "mark_asset_reviewed"} =>
            \A r \in call.target : r.team_id = call.actor.team_id

(***************************************************************************)
(* Specification of the team hierarchy: an admin creates, re-parents and   *)
(* deletes teams while assets and a user move between them.                *)
(***************************************************************************)

MaxTeams == 3
MaxTeamAssets == 1

Admins == {u \in users : u.is_admin}

\* A new team is a root or a sub-team of one of the first two teams; an
\* update keeps the team's name and sets its parent.
ParentInputs == {NoTeam, 1, 2}

NewTeamInputs == [name : {"Platform"}, parent_team_id : ParentInputs]

ReparentInputs(team_id) ==
    [name : {t.name : t \in {r \in teams : r.id = team_id}} \cup
            (IF HasRow(teams, team_id) THEN {} ELSE {"Platform"}),
     parent_team_id : ParentInputs]

\* Assets as an upload makes them: no OS, owned by the administrator.
TeamAssetInputs ==
    [name : {"srv"}, ip_address : {"10.0.0.1"}, os_version : {Null},
     team_id : {1, 2, 3}, owner_id : {1}]

NextTeams ==
    \/ \E u \in Admins, t \in NewTeamInputs :
        /\ nextId.team <= MaxTeams
        /\ create_team(u, t)
    \/ \E u \in Admins, id \in 1..MaxTeams :
        \E t \in ReparentInputs(id) : update_team(u, id, t)
    \/ \E u \in Admins, id \in 1..MaxTeams : delete_team(u, id)
    \/ \E u \in users \ Admins : delete_team(u, 1)
    \/ \E u \in Admins, team_id \in {NoTeam, 1, 2} : update_user(u, 2, team_id)
    \/ \E u \in Admins, a \in TeamAssetInputs :
        /\ nextId.asset <= MaxTeamAssets
        /\ create_asset(u, a)
    \/ \E u \in Admins, r \in assets, a \in TeamAssetInputs :
        update_asset(u, r.id, a)
    \/ \E u \in Admins : delete_user(u, 2)
    \/ \E u \in Admins, file \in UploadInputs :
        /\ \A i \in DOMAIN file.rows : file.rows[i].ip_address = "10.0.0.1"
        /\ nextId.asset <= MaxTeamAssets
        /\ upload_assets(u, file)

SpecTeams == InitStore /\ [][NextTeams]_vars

\* C7: delete_team on a team with a sub-team, an asset or a user is answered
\* with an error that names the sub-teams, or else gives the asset count, or
\* else the user count, and changes no row; a team row disappears only by a
\* delete_team on a team without sub-teams, assets and users.
C7_DeleteTeamGuard ==
    [][
        /\ (/\ call'.op = "delete_team"
            /\ call'.actor.is_admin
            /\ HasRow(teams, call'.team_id)) =>
            LET tid == call'.team_id
                subs == {t \in teams : t.parent_team_id = tid}
                nAssets == Cardinality({a \in assets : a.team_id = tid})
                nUsers == Cardinality({x \in users : x.team_id = tid})
            IN  IF subs # {} \/ nAssets > 0 \/ nUsers > 0
                    THEN /\ reply'.status = 400
                         /\ UNCHANGED <<teams, users, assets, vulns>>
                         /\ subs # {} =>
                                /\ reply'.body.error = "sub-teams"
                                /\ reply'.body.names = {t.name : t \in subs}
                         /\ (subs = {} /\ nAssets > 0) =>
                                /\ reply'.body.error = "assets"
                                /\ reply'.body.count = nAssets
                         /\ (subs = {} /\ nAssets = 0) =>
                                /\ reply'.body.error = "users"
                                /\ reply'.body.count = nUsers
                    ELSE /\ reply'.status = 200
                         /\ teams' = teams \ {RowById(teams, tid)}
        /\ \A t \in teams :
            t.id \notin {x.id : x \in teams'} =>
                /\ call'.op = "delete_team"
                /\ call'.team_id = t.id
                /\ ~\E c \in teams : c.parent_team_id = t.id
                /\ ~\E a \in assets : a.team_id = t.id
                /\ ~\E x \in users : x.team_id = t.id
    ]_vars

\* Reached: delete_team on a team with one sub-team was refused with the
\* sub-team's name, the team row still present.
C7_Witness ==
    /\ call.op = "delete_team"
    /\ reply.status = 400
    /\ reply.body.error = "sub-teams"
    /\ HasRow(teams, call.team_id)
    /\ Cardinality({t \in teams : t.parent_team_id = call.team_id}) = 1
    /\ reply.body.names = {t.name : t \in {c \in teams : c.parent_team_id = call.team_id}}

(***************************************************************************)
(* Sync from the scanner: POST /insightvm/sync/assets                      *)
(*                                                                         *)
(* A handler runs in one request-scoped SQLAlchemy session.  A flush the   *)
(* database refuses leaves the session's transaction rolled back and       *)
(* inactive; the handlers never call rollback(), so from then on every     *)
(* query and every commit of that run raises PendingRollbackError.         *)
(***************************************************************************)

\* bool(v) is False for a missing key, a JSON null and the empty string.
Falsy(v) == v \in {Absent, Null, ""}

\* dict.get(key, default): the default only for a missing key, a JSON null
\* comes back as None.
get(v, default) == IF v = Absent THEN default ELSE v

\* What Query.first() returns for an empty result (None), as a row.
NoRow == [id |-> 0]

\* Query.first() has no ORDER BY: the rows any of which a call may come
\* back with, every call on its own; NoRow for an empty result.
first(rows) == IF rows = {} THEN {NoRow} ELSE rows

\* The local state of one run: the committed rows, the serial counter, the
\* session being usable, and the counters of the report.
RunState(rows, next) ==
    [rows |-> rows, next |-> next, active |-> TRUE,
     synced_count |-> 0, error_count |-> 0, errors |-> << >>, aborted |-> FALSE]

\* The except clause of the record loop.
asset_error(st, ip, e) ==
    [st EXCEPT !.error_count = @ + 1,
               !.errors = Append(@, <<"Error syncing asset", ip, e>>)]

\* db.commit() of one added or changed asset row: the row is flushed with
\* the next serial id already drawn; a row the table refuses costs the
\* session and is reported by the except clause.
commit_asset(st, row, ip) ==
    IF AssetRowValid(row)
        THEN [st EXCEPT !.rows = {a \in @ : a.id # row.id} \cup {row}]
        ELSE asset_error([st EXCEPT !.active = FALSE], ip, "IntegrityError")

\* models.Asset(...) of the create branch of both sync handlers: the four
\* keyword arguments of the call plus the column defaults of the table.
new_asset(id, r, u, team_id) ==
    [id |-> id,
     name |-> get(r.hostName, "Asset_" \o r.ip),
     ip_address |-> r.ip,
     os_version |-> get(r.os, "Unknown"),
     team_id |-> team_id,
     owner_id |-> u.id,
     last_reviewed_date |-> NoDate,
     public_facing |-> FALSE,
     environment |-> "dev",
     criticality |-> "medium",
     updated_at |-> NoDate]

\* The update branch with the public-facing flag reset to the value the
\* create branch gives it.
existing_asset_update_resets_public_facing(existing_asset, r) ==
    [existing_asset EXCEPT !.name = get(r.hostName, @),
                           !.os_version = get(r.os, @),
                           !.public_facing = FALSE,
                           !.updated_at = now + 1]

\* The update branch of sync_insightvm_assets: the three assignments to the
\* row found by IP address; datetime.now() is the instant of the run.
existing_asset_update(existing_asset, r) ==
    [existing_asset EXCEPT !.name = get(r.hostName, @),
                           !.os_version = get(r.os, @),
                           !.updated_at = now + 1]

\* The loop body with a record without an IP address counted as a failure.
sync_asset_record_missing_ip_is_error(st, r, u, team_id) ==
    IF r.json # "object"
        THEN {[st EXCEPT !.aborted = TRUE]}
    ELSE IF Falsy(r.ip)
        THEN {asset_error(st, "unknown", "missing ip")}
    ELSE IF ~st.active
        THEN {asset_error(st, r.ip, "PendingRollbackError")}
    ELSE LET existing == {a \in st.rows : a.ip_address = r.ip}
         IN  IF existing = {}
                THEN {commit_asset(
                        [st EXCEPT !.synced_count = @ + 1, !.next = @ + 1],
                        new_asset(st.next, r, u, team_id),
                        r.ip)}
                ELSE {commit_asset(
                        [st EXCEPT !.synced_count = @ + 1],
                        existing_asset_update(existing_asset, r),
                        r.ip) : existing_asset \in first(existing)}

\* One pass of the body of "for asset in assets" of sync_insightvm_assets:
\* the states the pass can leave, one for every row the lookup by IP
\* address can come back with.
sync_asset_record(st, r, u, team_id) ==
    IF r.json # "object"
        THEN {[st EXCEPT !.aborted = TRUE]}
    ELSE IF Falsy(r.ip)
        THEN {st}
    ELSE IF ~st.active
        THEN {asset_error(st, r.ip, "PendingRollbackError")}
    ELSE LET existing == {a \in st.rows : a.ip_address = r.ip}
         IN  IF existing = {}
                THEN {commit_asset(
                        [st EXCEPT !.synced_count = @ + 1, !.next = @ + 1],
                        new_asset(st.next, r, u, team_id),
                        r.ip)}
                ELSE {commit_asset(
                        [st EXCEPT !.synced_count = @ + 1],
                        existing_asset_update(existing_asset, r),
                        r.ip) : existing_asset \in first(existing)}

\* The loop over the listing: the states a run can end in.
RECURSIVE sync_assets_loop(_, _, _, _)
sync_assets_loop(st, records, u, team_id) ==
    IF records = << >> \/ st.aborted
        THEN {st}
        ELSE UNION {sync_assets_loop(next, Tail(records), u, team_id) :
                        next \in sync_asset_record(st, Head(records), u, team_id)}

\* The "resources" member of a listing as the client hands it over: the
\* scanner's list for a decoded JSON body, [] for every other dict.
resources(value, listing) == IF value.tag = "json" THEN listing ELSE << >>

\* The size the sync handlers ask every listing for.
SyncPageSize == 1000

\* InsightVMClient.get_assets, get_site_assets and search_assets_by_ip: the
\* request each hands to _make_request.  search_assets_by_ip sends no query
\* parameters.
insightvm_get_assets(page, size) ==
    [method |-> "GET", endpoint |-> "assets",
     params |-> [page |-> page, size |-> size]]

insightvm_get_site_assets(page, size) ==
    [method |-> "GET", endpoint |-> "sites/{site_id}/assets",
     params |-> [page |-> page, size |-> size]]

insightvm_search_assets_by_ip ==
    [method |-> "POST", endpoint |-> "assets/search", params |-> << >>]

\* The report with error_count taken from the list it returns.
sync_report_counts_returned_errors(message, st) ==
    [message |-> message, synced_count |-> st.synced_count,
     error_count |-> Len(Take(st.errors, ErrorsCap)),
     errors |-> Take(st.errors, ErrorsCap)]

sync_report(message, st) ==
    [message |-> message, synced_count |-> st.synced_count,
     error_count |-> st.error_count, errors |-> Take(st.errors, ErrorsCap)]

\* POST /insightvm/sync/assets.  mode is "sync_all", "site_id" or "none"
\* (neither parameter given); x is the outcome of the listing request and
\* team the row Query(Team).first() comes back with, NoRow when the table
\* of teams is empty.  HTTPException raised inside the handler's try is
\* caught by its "except Exception" and leaves as 500.
sync_insightvm_assets(u, mode, x, team) ==
    LET value == make_request(x)
        listing == IF mode = "none" \/ ~u.is_admin \/ value.tag = "raise"
                       THEN << >>
                       ELSE resources(value, scanner.assets)
    IN  \E final \in sync_assets_loop(RunState(assets, nextId.asset),
                                       listing, u, team.id) :
            /\ team \in first(teams)
            /\ now' = now + 1
            /\ call' = [op |-> "sync_assets", actor |-> u, at |-> now',
                        scope |-> IF mode = "none" THEN "none" ELSE value.tag,
                        requests |->
                            IF ~u.is_admin \/ mode = "none" THEN << >>
                            ELSE IF mode = "sync_all"
                                THEN <<insightvm_get_assets(0, SyncPageSize)>>
                                ELSE <<insightvm_get_site_assets(0, SyncPageSize)>>,
                        resources |-> listing]
            /\ IF ~u.is_admin
                THEN /\ reply' = Reply(403, "Admin privileges required")
                     /\ UNCHANGED <<assets, nextId>>
                ELSE IF mode = "none"
                    THEN /\ reply' = Reply(500, "Either site_id or sync_all must be provided")
                         /\ UNCHANGED <<assets, nextId>>
                ELSE IF value.tag = "raise"
                    THEN /\ reply' = Reply(500, value.msg)
                         /\ UNCHANGED <<assets, nextId>>
                ELSE IF team = NoRow
                    THEN /\ reply' = Reply(500, "No default team found")
                         /\ UNCHANGED <<assets, nextId>>
                ELSE /\ assets' = final.rows
                     /\ nextId' = [nextId EXCEPT !.asset = final.next]
                     /\ reply' =
                            IF final.aborted
                                THEN Reply(500, "'NoneType' object has no attribute 'get'")
                                ELSE Reply(200, sync_report("Asset sync completed", final))
            /\ UNCHANGED <<teams, users, vulns, exchanges, scanner, runs>>

(***************************************************************************)
(* Sync from the scanner: POST /insightvm/sync/vulnerabilities             *)
(***************************************************************************)

\* InsightVMClient.test_connection: "failed" only when _make_request
\* raises.
test_connection(x) ==
    LET value == make_request(x)
    IN  [status |-> IF value.tag = "raise" THEN "failed" ELSE "connected",
         server_info |-> value]

\* str.lower() on the severity texts in use.
lower(s) ==
    CASE s = "Critical" -> "critical"
      [] s = "Severe" -> "severe"
      [] s = "Moderate" -> "moderate"
      [] s = "Unknown" -> "unknown"
      [] s = "Low" -> "low"
      [] s = "SEVERE" -> "severe"
      [] s = "Informational" -> "informational"
      [] OTHER -> s

\* NOT NULL constraints of table vulnerabilities.
VulnRowValid(row) == row.title # Null /\ row.severity # Null

\* The local state of one vulnerability run: RunState for table assets, and
\* for table vulnerabilities the committed rows (vrows), the rows as the
\* session holds them, changed attributes included (vwork), the added rows
\* not yet flushed (vnew) and the serial counter (vnext).
VulnRunState(arows, anext, vrows, vnext) ==
    [rows |-> arows, next |-> anext, active |-> TRUE, synced_count |-> 0,
     error_count |-> 0, errors |-> << >>, aborted |-> FALSE,
     vrows |-> vrows, vwork |-> vrows, vnew |-> << >>, vnext |-> vnext]

\* Session.flush(): UPDATEs of the changed rows, then INSERTs of the added
\* rows in order, each drawing a serial id.  A refused statement rolls the
\* transaction back to the last commit and deactivates the session; the
\* ids drawn up to the refused INSERT stay drawn.
flush(st) ==
    LET n == Len(st.vnew)
        inserted == {[st.vnew[i] EXCEPT !.id = st.vnext + i - 1] : i \in 1..n}
        badNew == {i \in 1..n : ~VulnRowValid(st.vnew[i])}
        firstBad == CHOOSE i \in badNew : \A j \in badNew : i <= j
    IN  IF \E row \in st.vwork : ~VulnRowValid(row)
            THEN [st EXCEPT !.active = FALSE, !.vwork = st.vrows,
                            !.vnew = << >>]
        ELSE IF badNew # {}
            THEN [st EXCEPT !.active = FALSE, !.vwork = st.vrows,
                            !.vnew = << >>, !.vnext = @ + firstBad]
        ELSE [st EXCEPT !.vwork = @ \cup inserted, !.vnew = << >>,
                        !.vnext = @ + n]

\* The except clause of the vulnerability loop.
vuln_error(st, vuln_id, e) ==
    [st EXCEPT !.error_count = @ + 1,
               !.errors = Append(@, <<"Error syncing vulnerability", vuln_id, e>>)]

\* [:1000] of the description.
DescriptionCap == 1000

\* A member of a vulnerability record that is a JSON object itself, as the
\* record carries it: json is "absent", "null" or "object"; for the
\* description, text is "absent", "null" or "string" and len the length of
\* the string; for cvss, v3 is "absent", "null" or "object" and score the
\* score of the v3 object.
NoDescription == [json |-> "absent", text |-> "absent", len |-> 0]
NoCvss == [json |-> "absent", v3 |-> "absent", score |-> 0]

\* text[:n] on a text given by its length.
slice_text(len, n) == IF len > n THEN n ELSE len

\* vuln.get("description", {}).get("text", default)[:1000] raises on a null
\* description (None.get) and on a null text (None[:1000]).
description_raises(v) ==
    LET d == Member(v, "description", NoDescription)
    IN  d.json = "null" \/ (d.json = "object" /\ d.text = "null")

\* The exception of that expression.
description_error(v) ==
    IF Member(v, "description", NoDescription).json = "null"
        THEN "AttributeError"
        ELSE "TypeError"

\* vuln.get("description", {}).get("text", default), as a length.
description_text(v, default) ==
    LET d == Member(v, "description", NoDescription)
    IN  IF d.json = "object" /\ d.text = "string" THEN d.len ELSE default

\* The description assigned without the slice.
sync_description_unsliced(v, default) == description_text(v, default)

\* The description both branches assign.
sync_description(v, default) ==
    slice_text(description_text(v, default), DescriptionCap)

\* vuln.get("cvss", {}).get("v3", {}).get("score", 0) raises on a null cvss
\* and on a null v3.
cvss_raises(v) ==
    LET c == Member(v, "cvss", NoCvss)
    IN  c.json = "null" \/ (c.json = "object" /\ c.v3 = "null")

\* str(vuln.get("cvss", {}).get("v3", {}).get("score", 0))
cvss_score(v) ==
    LET c == Member(v, "cvss", NoCvss)
    IN  IF c.json = "object" /\ c.v3 = "object" THEN ToString(c.score) ELSE "0"

\* One pass of the body of "for vuln in vulnerabilities": the states the
\* pass can leave, one for every row the lookup by asset and scanner id can
\* come back with.  The lookup flushes first when the session autoflushes.
\* An update that raises leaves the attributes assigned before it on the
\* row in the session.
sync_vuln_record(st, v, local_id, autoflush, t) ==
    IF Falsy(v.id)
        THEN {st}
    ELSE IF ~st.active
        THEN {vuln_error(st, v.id, "PendingRollbackError")}
    ELSE
        LET s1 == IF autoflush THEN flush(st) ELSE st
            existing == {row \in s1.vwork :
                            row.asset_id = local_id /\ row.rapid7_vuln_id = v.id}
            titled(old) == [old EXCEPT !.title = get(v.title, @)]
            described(old) ==
                [titled(old) EXCEPT !.description = sync_description(v, @)]
            lowered(old) ==
                [described(old) EXCEPT !.severity = lower(get(v.severity, @))]
            updated(old) ==
                IF description_raises(v)
                    THEN vuln_error(
                            [s1 EXCEPT !.vwork = (@ \ {old}) \cup {titled(old)}],
                            v.id, description_error(v))
                ELSE IF get(v.severity, old.severity) = Null
                    THEN vuln_error(
                            [s1 EXCEPT !.vwork = (@ \ {old}) \cup {described(old)}],
                            v.id, "AttributeError")
                ELSE IF cvss_raises(v)
                    THEN vuln_error(
                            [s1 EXCEPT !.vwork = (@ \ {old}) \cup {lowered(old)}],
                            v.id, "AttributeError")
                ELSE [s1 EXCEPT
                        !.synced_count = @ + 1,
                        !.vwork = (@ \ {old}) \cup
                            {[lowered(old) EXCEPT !.cvss_score = cvss_score(v),
                                                  !.last_seen = t]}]
        IN  IF ~s1.active
                THEN {vuln_error(s1, v.id, "IntegrityError")}
            ELSE IF existing = {}
                THEN IF description_raises(v)
                        THEN {vuln_error(s1, v.id, description_error(v))}
                     ELSE IF get(v.severity, "Unknown") = Null
                        THEN {vuln_error(s1, v.id, "AttributeError")}
                     ELSE IF cvss_raises(v)
                        THEN {vuln_error(s1, v.id, "AttributeError")}
                        ELSE {[s1 EXCEPT
                                !.synced_count = @ + 1,
                                !.vnew = Append(@,
                                    [id |-> 0,
                                     asset_id |-> local_id,
                                     rapid7_vuln_id |-> v.id,
                                     title |-> get(v.title, "Unknown Vulnerability"),
                                     description |-> sync_description(v, 0),
                                     severity |-> lower(get(v.severity, "Unknown")),
                                     cvss_score |-> cvss_score(v),
                                     status |-> "open",
                                     discovered_date |-> t,
                                     last_seen |-> t])]}
            ELSE {updated(old) : old \in first(existing)}

RECURSIVE sync_vulns_loop(_, _, _, _, _)
sync_vulns_loop(st, records, local_id, autoflush, t) ==
    IF records = << >>
        THEN {st}
        ELSE UNION {sync_vulns_loop(next, Tail(records), local_id, autoflush, t) :
                        next \in sync_vuln_record(st, Head(records), local_id,
                                                  autoflush, t)}

\* db.commit() after the vulnerability loop of one asset.
commit_vulns(st, ip) ==
    IF ~st.active
        THEN asset_error(st, ip, "PendingRollbackError")
        ELSE LET flushed == flush(st)
             IN  IF flushed.active
                    THEN [flushed EXCEPT !.vrows = flushed.vwork]
                    ELSE asset_error(flushed, ip, "IntegrityError")

\* The "resources" of the vulnerability listing of scanner asset id.
asset_vulnerabilities(id) ==
    IF id \in DOMAIN scanner.vulns THEN scanner.vulns[id] ELSE << >>

\* One pass of the body of "for asset in assets" of
\* sync_insightvm_vulnerabilities: find or create the local asset, fetch the
\* asset's vulnerabilities, upsert each, commit.  down holds the scanner
\* asset ids whose vulnerability request fails; team_id is NoRow.id when
\* the table of teams is empty, and a record without a local asset is then
\* passed over.  The states the pass can leave, one for every row the
\* lookup by IP address can come back with.
sync_asset_vulnerabilities(st, r, u, team_id, down, autoflush, t) ==
    IF r.json # "object"
        THEN {[st EXCEPT !.aborted = TRUE]}
    ELSE IF r.id = 0 \/ Falsy(r.ip)
        THEN {st}
    ELSE IF ~st.active
        THEN {asset_error(st, r.ip, "PendingRollbackError")}
    ELSE LET existing == {a \in st.rows : a.ip_address = r.ip}
             found_or_created ==
                IF existing # {}
                    THEN st
                    ELSE commit_asset(
                            [st EXCEPT !.next = @ + 1],
                            new_asset(st.next, r, u, team_id),
                            r.ip)
         IN  IF existing = {} /\ team_id = NoRow.id
                THEN {st}
             ELSE IF ~found_or_created.active
                THEN {found_or_created}
             ELSE IF r.id \in down
                THEN {[found_or_created EXCEPT
                        !.error_count = @ + 1,
                        !.errors = Append(@,
                            <<"Failed to get vulnerabilities for asset", r.ip,
                              "InsightVM API server error">>)]}
             ELSE {commit_vulns(done, r.ip) :
                    done \in UNION {
                        sync_vulns_loop(found_or_created,
                                        asset_vulnerabilities(r.id),
                                        IF existing_asset = NoRow
                                            THEN st.next ELSE existing_asset.id,
                                        autoflush, t) :
                            existing_asset \in first(existing)}}

RECURSIVE sync_vulnerabilities_loop(_, _, _, _, _, _, _)
sync_vulnerabilities_loop(st, records, u, team_id, down, autoflush, t) ==
    IF records = << >> \/ st.aborted
        THEN {st}
        ELSE UNION {sync_vulnerabilities_loop(next, Tail(records), u, team_id,
                                              down, autoflush, t) :
                        next \in sync_asset_vulnerabilities(
                                    st, Head(records), u, team_id, down,
                                    autoflush, t)}

\* The assets of the scanner that POST assets/search matches for an IP.
search_assets_by_ip(ip) == SelectSeq(scanner.assets, LAMBDA r : r.ip = ip)

\* POST /insightvm/sync/vulnerabilities.  in is the request and what it
\* meets: actor, mode ("sync_all", "asset_ip" or "none"), asset_ip, info
\* and list (the outcomes of the connectivity and of the listing request),
\* down, team (the row Query(Team).first() comes back with) and autoflush
\* (the setting of database.SessionLocal; a run is tried with either).
sync_insightvm_vulnerabilities(in) ==
    LET u == in.actor
        connection_test == test_connection(in.info)
        assets_response == make_request(in.list)
        refused ==
            IF ~u.is_admin THEN "Admin privileges required"
            ELSE IF connection_test.status # "connected"
                THEN "InsightVM connection failed"
            ELSE IF in.mode = "none"
                THEN "Either asset_ip or sync_all must be provided"
            ELSE IF assets_response.tag = "raise"
                THEN assets_response.msg
            ELSE IF assets_response.tag = "error"
                THEN IF in.mode = "sync_all"
                        THEN "Failed to get assets from InsightVM"
                        ELSE "Failed to search assets by IP"
            ELSE ""
        listing ==
            IF refused # "" THEN << >>
            ELSE IF in.mode = "sync_all"
                THEN resources(assets_response, scanner.assets)
                ELSE resources(assets_response, search_assets_by_ip(in.asset_ip))
    IN  \E final \in sync_vulnerabilities_loop(
                            VulnRunState(assets, nextId.asset, vulns,
                                         nextId.vuln),
                            listing, u, in.team.id, in.down, in.autoflush,
                            now + 1) :
            /\ in.team \in first(teams)
            /\ now' = now + 1
            /\ call' = [op |-> "sync_vulnerabilities", actor |-> u, at |-> now',
                        sync_all |-> in.mode = "sync_all",
                        connectivity |-> connection_test.server_info.tag,
                        requests |->
                            IF ~u.is_admin \/ in.mode = "none"
                                    \/ connection_test.status # "connected"
                                THEN << >>
                            ELSE IF in.mode = "sync_all"
                                THEN <<insightvm_get_assets(0, SyncPageSize)>>
                                ELSE <<insightvm_search_assets_by_ip>>,
                        resources |-> listing, down |-> in.down]
            /\ IF refused # ""
                THEN /\ reply' = Reply(IF u.is_admin THEN 500 ELSE 403, refused)
                     /\ UNCHANGED <<assets, vulns, nextId>>
                ELSE /\ assets' = final.rows
                     /\ vulns' = final.vrows
                     /\ nextId' = [nextId EXCEPT !.asset = final.next,
                                                 !.vuln = final.vnext]
                     /\ reply' =
                            IF final.aborted
                                THEN Reply(500, "'NoneType' object has no attribute 'get'")
                                ELSE Reply(200, sync_report("Vulnerability sync completed", final))
            /\ UNCHANGED <<teams, users, exchanges, scanner, runs>>

(***************************************************************************)
(* Specification of the asset sync: the scanner holds a listing of up to   *)
(* MaxBatch records, and sync runs follow one another.                     *)
(***************************************************************************)

MaxBatch == 3
MaxSyncRuns == 2

RECURSIVE SeqsUpTo(_, _)
SeqsUpTo(S, n) ==
    IF n = 0
        THEN {<< >>}
        ELSE LET shorter == SeqsUpTo(S, n - 1)
             IN  shorter \cup {Append(q, e) : q \in shorter, e \in S}

\* A null in place of a record.
NullRecord ==
    [json |-> "null", id |-> 0, ip |-> Absent, hostName |-> Absent, os |-> Absent]

\* Records with either of two addresses and a host name that is missing,
\* null or given; a record without an address; a null.
AssetRecordInputs ==
    {r \in [json : {"object"}, id : {1}, ip : {Absent, "10.0.0.1", "10.0.0.2"},
            hostName : {Absent, Null, "web"}, os : {"Linux"}] :
        r.ip = Absent => r.hostName = Absent}
    \cup {NullRecord}

\* The answers of the scanner to a listing request that the runs are tried
\* with: the listing, a rejection, a server error, a timeout.
ScannerReplies ==
    {x \in HttpOutcomes :
        /\ x.message = Absent
        /\ \/ x.kind = "timeout"
           \/ x.kind = "response" /\ x.body = "object" /\ x.status \in {200, 401, 503}}

SyncModes == {"sync_all", "site_id", "none"}

InitSyncAssets ==
    /\ teams = InitTeams
    /\ users = InitUsers
    /\ assets = {}
    /\ vulns = {}
    /\ nextId = [team |-> 3, user |-> 3, asset |-> 1, vuln |-> 1]
    /\ now = 0
    /\ call = Idle
    /\ reply = Idle
    /\ exchanges = << >>
    /\ runs = NoRuns
    /\ \E listing \in SeqsUpTo(AssetRecordInputs, MaxBatch) :
        scanner = [assets |-> listing, vulns |-> << >>]

NextSyncAssets ==
    /\ now < MaxSyncRuns
    /\ \E u \in users, mode \in SyncModes, x \in ScannerReplies, team \in first(teams) :
        sync_insightvm_assets(u, mode, x, team)

SpecSyncAssets == InitSyncAssets /\ [][NextSyncAssets]_vars

\* A record of a listing that carries an IP address.
HasIp(r) == r.json = "object" /\ ~Falsy(r.ip)

LocalAssetsWithIp(rows, ip) == Cardinality({a \in rows : a.ip_address = ip})

\* A record whose processing raises: its row is refused by the store (the
\* host name is null, column assets.name is NOT NULL).
RecordRaises(r) == HasIp(r) /\ r.hostName = Null

\* C1: a completed asset sync leaves exactly one local asset for every
\* listed record with an IP address that was unknown before the run, and
\* adds none for an IP address that was known (a second run over the same
\* listing creates nothing).  Stated for the records whose own row the
\* store accepts.
C1_SyncAssetsIdempotent ==
    [][
        (call'.op = "sync_assets" /\ reply'.status = 200) =>
            \A i \in 1..Len(call'.resources) :
                LET r == call'.resources[i]
                IN  (HasIp(r) /\ ~RecordRaises(r)) =>
                        IF LocalAssetsWithIp(assets, r.ip) = 0
                            THEN LocalAssetsWithIp(assets', r.ip) = 1
                            ELSE LocalAssetsWithIp(assets', r.ip) =
                                    LocalAssetsWithIp(assets, r.ip)
    ]_vars

\* C3: in a completed run over N records that all carry an IP address and
\* of which exactly one raises, the report says synced_count = N - 1 and
\* error_count = 1, and every record after the failing one is persisted.
C3_PerRecordErrorIsolation ==
    [][
        LET batch == call'.resources
            N == Len(batch)
            failing == {i \in 1..N : RecordRaises(batch[i])}
        IN  (/\ call'.op = "sync_assets"
             /\ reply'.status = 200
             /\ \A i \in 1..N : HasIp(batch[i])
             /\ Cardinality(failing) = 1) =>
                /\ reply'.body.synced_count = N - 1
                /\ reply'.body.error_count = 1
                /\ \A i \in failing : \A j \in (i + 1)..N :
                        LocalAssetsWithIp(assets', batch[j].ip) >= 1
    ]_vars

\* C5: records without an IP address leave no trace of an asset sync.  The
\* run ends with the rows, the counters and the error list of the same run
\* over the listing without those records; no error entry and no local
\* asset belongs to a record without an IP address.
C5_NoIpRecordSkipped ==
    [][
        (call'.op = "sync_assets" /\ call'.resources # << >>) =>
            LET batch == call'.resources
                withIp == SelectSeq(batch, LAMBDA r : r.json # "object" \/ HasIp(r))
                nWithIp == Cardinality({i \in 1..Len(batch) : HasIp(batch[i])})
            IN  /\ \E team \in teams :
                    \E final \in sync_assets_loop(
                                    RunState(assets, nextId.asset), withIp,
                                    call'.actor, team.id) :
                        /\ assets' = final.rows
                        /\ nextId'.asset = final.next
                        /\ IF final.aborted
                            THEN reply'.status = 500
                            ELSE reply' = Reply(200,
                                    sync_report("Asset sync completed", final))
                /\ reply'.status = 200 =>
                    /\ reply'.body.error_count <= nWithIp
                    /\ reply'.body.synced_count <= nWithIp
                    /\ \A k \in 1..Len(reply'.body.errors) :
                        \E i \in 1..Len(batch) :
                            HasIp(batch[i]) /\ reply'.body.errors[k][2] = batch[i].ip
                /\ \A a \in assets' : ~Falsy(a.ip_address)
    ]_vars

\* Reached: a listing with a record without an IP address before a record
\* with one; the run reported no error and the later record has its asset.
C5_Witness ==
    /\ call.op = "sync_assets"
    /\ reply.status = 200
    /\ reply.body.error_count = 0
    /\ reply.body.synced_count >= 1
    /\ \E i, j \in 1..Len(call.resources) :
        /\ i < j
        /\ call.resources[i].json = "object"
        /\ Falsy(call.resources[i].ip)
        /\ HasIp(call.resources[j])
        /\ LocalAssetsWithIp(assets, call.resources[j].ip) = 1

(***************************************************************************)
(* Specification of the vulnerability sync: the scanner holds one of a few *)
(* asset listings, every asset with the same listing of up to              *)
(* MaxVulnRecords vulnerabilities, and sync runs follow one another.       *)
(***************************************************************************)

MaxVulnRecords == 2

ScannerAssetIds == {1, 2}

ScannerAsset(id, ip, hostName) ==
    [json |-> "object", id |-> id, ip |-> ip, hostName |-> hostName,
     os |-> "Linux"]

\* Asset listings: scanner asset 1 at 10.0.0.1 alone, before and after
\* scanner asset 2 at 10.0.0.2, with a null host name, without its IP
\* address, and followed by a null in place of a record.
VulnAssetListings ==
    LET a1 == ScannerAsset(1, "10.0.0.1", Absent)
        a2 == ScannerAsset(2, "10.0.0.2", Absent)
    IN  { <<a1>>, <<a1, a2>>, <<a2, a1>>,
          <<ScannerAsset(1, "10.0.0.1", Null), a2>>,
          <<ScannerAsset(1, Absent, Absent), a2>>,
          <<a1, NullRecord>> }

\* Vulnerability records: complete ones for v1 and v2, and v1 with one
\* member missing or null.
VulnRecordInputs ==
    {v \in [id : {Absent, "v1", "v2"}, title : {Absent, Null, "XSS"},
            severity : {Absent, Null, "Critical"}] :
        /\ v.id = "v2" => v.title = "XSS" /\ v.severity = "Critical"
        /\ v.id = Absent => v.title = "XSS" /\ v.severity = "Critical"
        /\ v.title = "XSS" \/ v.severity = "Critical"
        /\ v.title = Absent <=> v.severity = Absent}

\* The requests the runs are tried with.  Members a run never reads are
\* held at one value, and a failing vulnerability request, a session
\* without autoflush and the second team are tried on sync_all runs that
\* get their listing.
VulnRunInputs ==
    LET listed(i) == i.list.kind = "response" /\ i.list.status = 200
        varied(i) == \/ i.down # {}
                     \/ ~i.autoflush
                     \/ i.team # RowById(InitTeams, 1)
    IN  {i \in [actor : InitUsers, mode : SyncModes \ {"site_id"},
                asset_ip : {"10.0.0.1"}, info : ScannerReplies,
                list : {x \in ScannerReplies : x.kind = "response" /\ x.status \in {200, 503}},
                down : {{}, {2}}, autoflush : BOOLEAN, team : InitTeams] :
            /\ ~i.actor.is_admin =>
                i.mode = "sync_all" /\ i.info.kind = "timeout" /\ listed(i)
            /\ i.mode = "none" => listed(i)
            /\ varied(i) =>
                /\ i.actor.is_admin
                /\ i.mode = "sync_all"
                /\ listed(i)
                /\ i.info.kind = "response" /\ i.info.status = 200
            /\ i.team # RowById(InitTeams, 1) => i.down = {} /\ i.autoflush}

InitSyncVulns ==
    /\ teams = InitTeams
    /\ users = InitUsers
    /\ assets = {}
    /\ vulns = {}
    /\ nextId = [team |-> 3, user |-> 3, asset |-> 1, vuln |-> 1]
    /\ now = 0
    /\ call = Idle
    /\ reply = Idle
    /\ exchanges = << >>
    /\ runs = NoRuns
    /\ \E listing \in VulnAssetListings,
          found \in SeqsUpTo(VulnRecordInputs, MaxVulnRecords) :
        scanner = [assets |-> listing, vulns |-> [id \in ScannerAssetIds |-> found]]

NextSyncVulns ==
    /\ now < MaxSyncRuns
    /\ \E in \in VulnRunInputs :
        /\ in.actor \in users
        /\ in.team \in first(teams)
        /\ sync_insightvm_vulnerabilities(in)

SpecSyncVulns == InitSyncVulns /\ [][NextSyncVulns]_vars

\* A vulnerability record whose processing raises: the store refuses a
\* null title, and lower() fails on a null severity.
VulnRecordRaises(v) == v.title = Null \/ v.severity = Null

VulnRowsOf(rows, asset_id, vuln_id) ==
    {x \in rows : x.asset_id = asset_id /\ x.rapid7_vuln_id = vuln_id}

\* C2: after a completed vulnerability sync every pair of a local asset and
\* a vulnerability id listed for it has exactly one row; a pair that had its
\* row before the run (a second run over the same data) keeps that row with
\* last_seen advanced and discovered_date and status as they were.  Stated
\* for the vulnerability records that do not raise themselves.
C2_SyncVulnerabilitiesIdempotent ==
    [][
        (call'.op = "sync_vulnerabilities" /\ reply'.status = 200) =>
            \A i \in 1..Len(call'.resources) :
                LET r == call'.resources[i]
                    listed == asset_vulnerabilities(r.id)
                IN  (HasIp(r) /\ r.id # 0 /\ r.id \notin call'.down) =>
                        \A a \in {x \in assets' : x.ip_address = r.ip} :
                        \A k \in 1..Len(listed) :
                            LET v == listed[k]
                                before == VulnRowsOf(vulns, a.id, v.id)
                                after == VulnRowsOf(vulns', a.id, v.id)
                            IN  (~Falsy(v.id) /\ ~VulnRecordRaises(v)) =>
                                    /\ Cardinality(after) = 1
                                    /\ \A o \in before : \A n \in after :
                                        /\ n.id = o.id
                                        /\ n.last_seen > o.last_seen
                                        /\ n.discovered_date = o.discovered_date
                                        /\ n.status = o.status
    ]_vars

\* C4: a vulnerability sync of all assets whose connectivity check fails
\* (the scanner times out, rejects the credentials or answers 5xx) ends
\* with an error result and leaves tables assets and vulnerabilities as
\* they were.
C4_ConnectivityFailureAborts ==
    [][
        (/\ call'.op = "sync_vulnerabilities"
         /\ call'.actor.is_admin
         /\ call'.sync_all
         /\ call'.connectivity = "error") =>
            /\ reply'.status # 200
            /\ assets' = assets
            /\ vulns' = vulns
    ]_vars


\* ---------------------------------------------------------------------
\* Asset sync over assets that were entered by hand: an administrator
\* creates assets with their own team, owner, environment, criticality and
\* public-facing flag, reviews them, and the scanner lists the same
\* addresses.

MaxFrameAssets == 2

FrameAssetInputs ==
    [name : {"db"}, ip_address : {"10.0.0.1"}, os_version : {"Windows"},
     team_id : {2}, owner_id : {2}, public_facing : {TRUE},
     environment : {"prod"}, criticality : {"high"}]

FrameRecordInputs ==
    [json : {"object"}, id : {1}, ip : {"10.0.0.1", "10.0.0.2"},
     hostName : {Absent, Null, "web"}, os : {Absent, "Linux"}]

\* The listings the runs are tried with: none or one record of every kind,
\* and two records of which the first names host and OS.
FrameListings ==
    SeqsUpTo(FrameRecordInputs, 1)
    \cup {<<r, s>> : r \in {x \in FrameRecordInputs :
                                x.hostName = "web" /\ x.os = "Linux"},
                     s \in {x \in FrameRecordInputs :
                                x.hostName # Null /\ x.os = Absent}}

InitSyncFrame ==
    /\ teams = InitTeams
    /\ users = InitUsers
    /\ assets = {}
    /\ vulns = {}
    /\ nextId = [team |-> 3, user |-> 3, asset |-> 1, vuln |-> 1]
    /\ now = 0
    /\ call = Idle
    /\ reply = Idle
    /\ exchanges = << >>
    /\ runs = NoRuns
    /\ \E listing \in FrameListings :
        scanner = [assets |-> listing, vulns |-> << >>]

NextSyncFrame ==
    \/ /\ nextId.asset <= MaxFrameAssets
       /\ \E u \in Admins, a \in FrameAssetInputs : create_asset(u, a)
    \/ \E u \in Admins, a \in assets : mark_asset_reviewed(u, a.id)
    \/ /\ now < MaxSyncRuns
       /\ \E u \in Admins, x \in ScannerReplies, team \in first(teams) :
            sync_insightvm_assets(u, "sync_all", x, team)

SpecSyncFrame == InitSyncFrame /\ [][NextSyncFrame]_vars

\* The records of a listing that the update branch takes: an object with an
\* IP address that a local asset already has.
FoundLocally(rows, r) ==
    HasIp(r) /\ LocalAssetsWithIp(rows, r.ip) > 0

\* Row b is row a up to the descriptive fields.
SameButDescriptive(a, b) ==
    b = [a EXCEPT !.name = b.name, !.os_version = b.os_version,
                  !.updated_at = b.updated_at]

\* C11: an asset sync run leaves, of every asset that existed before the
\* run, everything but name, OS version and update timestamp as it was
\* (team, owner, criticality, environment, public-facing flag, last-reviewed
\* date, address, id), and for every listed record whose IP address a local
\* asset already had, the number of local assets with that address is the
\* same after the run: no asset is created for it.
C11_SyncUpdateFrame ==
    [][(call'.op = "sync_assets" /\ now' = now + 1) =>
        /\ \A a \in assets :
            \E b \in assets' : b.id = a.id /\ SameButDescriptive(a, b)
        /\ \A i \in DOMAIN call'.resources :
            FoundLocally(assets, call'.resources[i]) =>
                LocalAssetsWithIp(assets', call'.resources[i].ip)
                    = LocalAssetsWithIp(assets, call'.resources[i].ip)]_vars

\* A run has renamed a reviewed, public-facing production asset of the
\* second team, and the asset still is all of that.
C11_Witness ==
    /\ call.op = "sync_assets"
    /\ reply.status = 200
    /\ \E a \in assets :
        /\ a.name = "web" /\ a.os_version = "Linux" /\ a.updated_at = now
        /\ a.team_id = 2 /\ a.owner_id = 2 /\ a.public_facing
        /\ a.environment = "prod" /\ a.criticality = "high"
        /\ a.last_reviewed_date # NoDate
    /\ Cardinality(assets) = 1


\* ---------------------------------------------------------------------
\* Sync runs that are cut short: the server process is killed while a run
\* is in its record loop, and what the store holds afterwards is what the
\* run had committed.

\* sync_insightvm_assets killed after the first k records of the listing
\* went through the loop body.  No reply is sent.
sync_insightvm_assets_killed(u, x, team, k) ==
    LET value == make_request(x)
        listing == resources(value, scanner.assets)
        done == SubSeq(listing, 1, k)
    IN  \E run \in sync_assets_loop(RunState(assets, nextId.asset),
                                     done, u, team.id) :
        /\ u.is_admin
        /\ team \in first(teams) \ {NoRow}
        /\ value.tag # "raise"
        /\ k < Len(listing)
        /\ ~run.aborted
        /\ now' = now + 1
        /\ call' = [op |-> "sync_assets_killed", actor |-> u, at |-> now',
                    resources |-> done, error_count |-> run.error_count]
        /\ reply' = Idle
        /\ assets' = run.rows
        /\ nextId' = [nextId EXCEPT !.asset = run.next]
        /\ UNCHANGED <<teams, users, vulns, exchanges, scanner, runs>>

\* The body of "for asset in assets" of sync_insightvm_vulnerabilities for a
\* record with id and IP address whose vulnerability request succeeds, up
\* to the end of the pass for the k-th vulnerability: the db.commit() after
\* the inner loop is not reached.
sync_asset_vulnerabilities_killed(st, r, u, team_id, k, autoflush, t) ==
    LET existing == {a \in st.rows : a.ip_address = r.ip}
        found_or_created ==
            IF existing # {}
                THEN st
                ELSE commit_asset([st EXCEPT !.next = @ + 1],
                                  new_asset(st.next, r, u, team_id), r.ip)
    IN  IF existing = {} /\ team_id = NoRow.id
            THEN {st}
        ELSE IF ~found_or_created.active
            THEN {found_or_created}
            ELSE UNION {
                    sync_vulns_loop(found_or_created,
                                    SubSeq(asset_vulnerabilities(r.id), 1, k),
                                    IF existing_asset = NoRow
                                        THEN st.next ELSE existing_asset.id,
                                    autoflush, t) :
                        existing_asset \in first(existing)}

\* sync_insightvm_vulnerabilities (sync_all, connected, listing received)
\* killed in the pass for record i + 1 of the listing, after k of its
\* vulnerabilities went through the inner loop body.  The transaction that
\* is open at the kill is lost; the serial ids it drew stay drawn.
sync_insightvm_vulnerabilities_killed(u, team, autoflush, i, k) ==
    LET listing == scanner.assets
        r == listing[i + 1]
    IN  \E before \in sync_vulnerabilities_loop(
                            VulnRunState(assets, nextId.asset, vulns,
                                         nextId.vuln),
                            SubSeq(listing, 1, i), u, team.id, {}, autoflush,
                            now + 1) :
        /\ u.is_admin
        /\ team \in first(teams)
        /\ team = NoRow => \E a \in before.rows : a.ip_address = r.ip
        /\ i < Len(listing)
        /\ r.json = "object" /\ r.id # 0 /\ ~Falsy(r.ip)
        /\ k \in 1..Len(asset_vulnerabilities(r.id))
        /\ ~before.aborted /\ before.active
        /\ \E at_kill \in sync_asset_vulnerabilities_killed(
                                before, r, u, team.id, k, autoflush, now + 1) :
            /\ now' = now + 1
            /\ call' = [op |-> "sync_vulnerabilities_killed", actor |-> u,
                        at |-> now',
                        local_ids |-> {a.id : a \in {b \in at_kill.rows :
                                                        b.ip_address = r.ip}},
                        processed |-> SubSeq(asset_vulnerabilities(r.id), 1, k),
                        error_count |-> at_kill.error_count]
            /\ reply' = Idle
            /\ assets' = at_kill.rows
            /\ vulns' = at_kill.vrows
            /\ nextId' = [nextId EXCEPT !.asset = at_kill.next,
                                        !.vuln = at_kill.vnext]
        /\ UNCHANGED <<teams, users, exchanges, scanner, runs>>

KilledRunInputs ==
    {i \in VulnRunInputs :
        /\ i.actor.is_admin /\ i.mode = "sync_all" /\ i.down = {}
        /\ i.info.kind = "response" /\ i.info.status = 200
        /\ i.list.kind = "response" /\ i.list.status = 200}

NextSyncKilled ==
    /\ now < MaxSyncRuns
    /\ \/ \E in \in KilledRunInputs :
            /\ in.actor \in users /\ in.team \in first(teams)
            /\ sync_insightvm_vulnerabilities(in)
       \/ \E in \in KilledRunInputs, i \in 0..1, k \in 1..MaxVulnRecords :
            /\ in.actor \in users /\ in.team \in first(teams)
            /\ sync_insightvm_vulnerabilities_killed(in.actor, in.team,
                                                     in.autoflush, i, k)
       \/ \E in \in KilledRunInputs :
            /\ in.actor \in users /\ in.team \in first(teams)
            /\ sync_insightvm_assets(in.actor, "sync_all", in.list, in.team)
       \/ \E in \in KilledRunInputs, k \in 0..1 :
            /\ in.actor \in users /\ in.team \in first(teams)
            /\ sync_insightvm_assets_killed(in.actor, in.list, in.team, k)

SpecSyncKilled == InitSyncVulns /\ [][NextSyncKilled]_vars

\* C12: when a sync run is killed after k records went through the loop
\* body without a failure, the store holds the effect of each of the k: a
\* local asset for every asset record with an IP address, a local
\* vulnerability for every vulnerability record with an id.  Stated for
\* records whose rows the store accepts.
C12_PerRecordCommit ==
    [][
        /\ (call'.op = "sync_assets_killed" /\ call'.error_count = 0) =>
            \A j \in DOMAIN call'.resources :
                HasIp(call'.resources[j]) =>
                    LocalAssetsWithIp(assets', call'.resources[j].ip) >= 1
        /\ (/\ call'.op = "sync_vulnerabilities_killed"
            /\ call'.error_count = 0
            /\ \A j \in DOMAIN call'.processed :
                    ~VulnRecordRaises(call'.processed[j])) =>
            \A j \in DOMAIN call'.processed :
                ~Falsy(call'.processed[j].id) =>
                    \E row \in vulns' :
                        /\ row.asset_id \in call'.local_ids
                        /\ row.rapid7_vuln_id = call'.processed[j].id
    ]_vars


\* ---------------------------------------------------------------------
\* Sync runs with many failures: the scanner lists MaxReportBatch assets,
\* from one of them on every pass of the record loop fails, and the
\* reports of the runs are looked at.

MaxReportBatch == 12

\* Listing of n assets with ids 1..n at addresses 10.0.0.1 ...; record p has
\* a null host name and record q no IP address (0 for none).
ReportListing(n, p, q) ==
    [j \in 1..n |->
        [json |-> "object", id |-> j,
         ip |-> IF j = q THEN Absent ELSE "10.0.0." \o ToString(j),
         hostName |-> IF j = p THEN Null ELSE "web",
         os |-> "Linux"]]

\* The vulnerabilities every scanner asset is listed with: none, or one
\* with a null title before a complete one.
ReportVulnListings ==
    { << >>,
      << [id |-> "v1", title |-> Null, severity |-> "Critical"],
         [id |-> "v2", title |-> "XSS", severity |-> "Critical"] >> }

ReportRunInputs ==
    {i \in VulnRunInputs :
        /\ i.actor.is_admin /\ i.mode = "sync_all"
        /\ i.info.kind = "response" /\ i.info.status = 200
        /\ i.list.kind = "response" /\ i.list.status = 200}

InitSyncReport ==
    /\ teams = InitTeams
    /\ users = InitUsers
    /\ assets = {}
    /\ vulns = {}
    /\ nextId = [team |-> 3, user |-> 3, asset |-> 1, vuln |-> 1]
    /\ now = 0
    /\ call = Idle
    /\ reply = Idle
    /\ exchanges = << >>
    /\ runs = NoRuns
    /\ \E p \in 0..MaxReportBatch, q \in {0, 2}, found \in ReportVulnListings :
        scanner = [assets |-> ReportListing(MaxReportBatch, p, q),
                   vulns |-> [id \in 1..MaxReportBatch |-> found]]

NextSyncReport ==
    /\ now < MaxSyncRuns
    /\ \/ \E in \in ReportRunInputs :
            /\ in.actor \in users /\ in.team \in first(teams)
            /\ sync_insightvm_assets(in.actor, "sync_all", in.list, in.team)
       \/ \E in \in ReportRunInputs :
            /\ in.actor \in users /\ in.team \in first(teams)
            /\ sync_insightvm_vulnerabilities(in)

SpecSyncReport == InitSyncReport /\ [][NextSyncReport]_vars

\* The IP addresses of the records of an asset listing on which the pass of
\* the loop fails, in listing order: the records with an IP address from
\* the first one on that the store refuses (dead: one was refused before).
RECURSIVE FailedIps(_, _)
FailedIps(batch, dead) ==
    IF batch = << >>
        THEN << >>
        ELSE LET r == Head(batch)
                 fails == HasIp(r) /\ (dead \/ RecordRaises(r))
             IN  (IF fails THEN <<r.ip>> ELSE << >>)
                    \o FailedIps(Tail(batch), dead \/ fails)

Min(a, b) == IF a <= b THEN a ELSE b

\* C13: the report of every completed sync run has at most 10 errors; they
\* are the messages of the first min(10, error_count) failures of the run in
\* the order the failures occurred, and error_count is the number of all
\* failures of the run.  The failures of an asset run are the listed records
\* with an IP address from the first refused one on; the failures of a
\* vulnerability run are those of its record loops.
C13_ReportErrorsCapped ==
    [][
        /\ (call'.op \in {"sync_assets", "sync_vulnerabilities"}
                /\ reply'.status = 200) =>
            /\ Len(reply'.body.errors) <= ErrorsCap
            /\ Len(reply'.body.errors) = Min(ErrorsCap, reply'.body.error_count)
        /\ (call'.op = "sync_assets" /\ reply'.status = 200) =>
            LET failed == FailedIps(call'.resources, FALSE)
            IN  /\ reply'.body.error_count = Len(failed)
                /\ \A k \in DOMAIN reply'.body.errors :
                    /\ reply'.body.errors[k][1] = "Error syncing asset"
                    /\ reply'.body.errors[k][2] = failed[k]
        /\ (call'.op = "sync_vulnerabilities" /\ reply'.status = 200) =>
            \E team \in teams, autoflush \in BOOLEAN :
                \E final \in sync_vulnerabilities_loop(
                                VulnRunState(assets, nextId.asset, vulns,
                                             nextId.vuln),
                                call'.resources, call'.actor, team.id,
                                call'.down, autoflush, now + 1) :
                    /\ assets' = final.rows /\ vulns' = final.vrows
                    /\ reply'.body.error_count = Len(final.errors)
                    /\ reply'.body.errors = Take(final.errors, ErrorsCap)
    ]_vars

\* An asset run over twelve records failed on all but the first one and
\* reports the first ten failures.
C13_Witness ==
    /\ call.op = "sync_assets"
    /\ reply.status = 200
    /\ reply.body.error_count > ErrorsCap
    /\ Len(reply.body.errors) = ErrorsCap
    /\ reply.body.errors[1][2] = "10.0.0.2"
    /\ reply.body.errors[ErrorsCap][2] = "10.0.0.11"


\* C14: an asset sync run whose listing request the scanner answers with an
\* error (or not at all) ends without a report and without a write to the
\* store; it does not answer 200 with synced_count 0.
C14_ScopeErrorAborts ==
    [][
        (/\ call'.op = "sync_assets"
         /\ call'.actor.is_admin
         /\ call'.scope = "error") =>
            /\ reply'.status # 200
            /\ assets' = assets
    ]_vars


\* ---------------------------------------------------------------------
\* Paged listings: the scanner serves its asset listing page by page;
\* scanner.assets is page 0 and scanner.more the pages after it, as the
\* scanner cuts them for the size it is asked for.

\* The "resources" of page number page of the asset listing.
listing_page(page) ==
    IF page = 0 THEN scanner.assets
    ELSE IF page \in DOMAIN scanner.more THEN scanner.more[page]
    ELSE << >>

\* GET /insightvm/assets/: the caller's page and size go to
\* InsightVMClient.get_assets as they are, and what comes back is the
\* answer.  x is the outcome of the exchange with the scanner.
get_insightvm_assets(u, page, size, x) ==
    LET value == make_request(x)
    IN  /\ call' = [op |-> "get_insightvm_assets", actor |-> u, at |-> now,
                    requests |-> <<insightvm_get_assets(page, size)>>]
        /\ reply' = IF value.tag = "raise"
                        THEN Reply(500, "Failed to retrieve assets")
                        ELSE Reply(200, [value |-> value,
                                         resources |-> resources(value, listing_page(page))])
        /\ UNCHANGED <<teams, users, assets, vulns, nextId, now, exchanges, scanner, runs>>

MaxPages == 2

PageRecordInputs ==
    {r \in AssetRecordInputs : r.json = "object" /\ r.hostName # Null}

\* The page sizes callers ask for: the default of the endpoint, the
\* scanner's maximum, and one above it.
PageSizeInputs == {100, 500, 501}

InitSyncPaging ==
    /\ teams = InitTeams
    /\ users = InitUsers
    /\ assets = {}
    /\ vulns = {}
    /\ nextId = [team |-> 3, user |-> 3, asset |-> 1, vuln |-> 1]
    /\ now = 0
    /\ call = Idle
    /\ reply = Idle
    /\ exchanges = << >>
    /\ runs = NoRuns
    /\ \E first_page \in SeqsUpTo(PageRecordInputs, 1),
          pages \in SeqsUpTo(SeqsUpTo(PageRecordInputs, 1) \ {<< >>}, MaxPages - 1) :
        /\ first_page = << >> => pages = << >>
        /\ scanner = [assets |-> first_page, vulns |-> << >>, more |-> pages]

NextSyncPaging ==
    \/ \E u \in users, page \in 0..MaxPages, size \in PageSizeInputs,
          x \in ScannerReplies :
            get_insightvm_assets(u, page, size, x)
    \/ /\ now < MaxSyncRuns
       /\ \E u \in users, mode \in SyncModes, x \in ScannerReplies, team \in first(teams) :
            sync_insightvm_assets(u, mode, x, team)
    \/ /\ now < MaxSyncRuns
       /\ \E in \in KilledRunInputs :
            /\ in.actor \in users /\ in.team \in first(teams)
            /\ sync_insightvm_vulnerabilities(in)

SpecSyncPaging == InitSyncPaging /\ [][NextSyncPaging]_vars

\* The records of all pages of the scanner's asset listing.
AllListedRecords ==
    {scanner.assets[i] : i \in DOMAIN scanner.assets}
    \cup UNION {{scanner.more[p][i] : i \in DOMAIN scanner.more[p]} :
                    p \in DOMAIN scanner.more}

\* C15: after a completed asset sync over the whole listing with no failed
\* record, every record with an IP address on every page of the scanner's
\* listing has a local asset.
C15_SyncAssetsAllPages ==
    (/\ call.op = "sync_assets"
     /\ call.scope = "json"
     /\ call.requests # << >>
     /\ reply.status = 200
     /\ reply.body.error_count = 0) =>
        \A r \in AllListedRecords :
            HasIp(r) => LocalAssetsWithIp(assets, r.ip) >= 1

\* The scanner's maximum of records per page.
PerPageMax == 500

\* C16: no listing request that a handler sends to the scanner has a size
\* parameter above the scanner's maximum of 500.
C16_PageSizeCapped ==
    "requests" \in DOMAIN call =>
        \A i \in DOMAIN call.requests :
            "size" \in DOMAIN call.requests[i].params =>
                call.requests[i].params.size <= PerPageMax


\* ---------------------------------------------------------------------
\* Vulnerability sync over the severities of the scanner: one scanner asset
\* with up to two vulnerabilities, each with one of the scanner's severity
\* texts in some spelling.

SeverityInputs ==
    {"Critical", "Severe", "SEVERE", "Moderate", "Low", "low", "Informational"}

SeverityVulnListings ==
    {<<[id |-> "v1", title |-> "XSS", severity |-> s]>> : s \in SeverityInputs}
    \cup {<<[id |-> "v1", title |-> "XSS", severity |-> s],
            [id |-> "v2", title |-> "XSS", severity |-> t]>> :
                s \in SeverityInputs, t \in SeverityInputs}

InitSyncSeverity ==
    /\ teams = InitTeams
    /\ users = InitUsers
    /\ assets = {}
    /\ vulns = {}
    /\ nextId = [team |-> 3, user |-> 3, asset |-> 1, vuln |-> 1]
    /\ now = 0
    /\ call = Idle
    /\ reply = Idle
    /\ exchanges = << >>
    /\ runs = NoRuns
    /\ \E found \in SeverityVulnListings :
        scanner = [assets |-> <<ScannerAsset(1, "10.0.0.1", Absent)>>,
                   vulns |-> [id \in {1} |-> found]]

NextSyncSeverity ==
    /\ now < MaxSyncRuns
    /\ \E in \in KilledRunInputs :
        /\ in.actor \in users /\ in.team \in first(teams)
        /\ sync_insightvm_vulnerabilities(in)

SpecSyncSeverity == InitSyncSeverity /\ [][NextSyncSeverity]_vars

\* The fixed vocabulary: critical, high for severe, medium for moderate,
\* low; every other text lower-cased.
NormalizedSeverity(s) ==
    CASE lower(s) = "critical" -> "critical"
      [] lower(s) = "severe" -> "high"
      [] lower(s) = "moderate" -> "medium"
      [] lower(s) = "low" -> "low"
      [] OTHER -> lower(s)

\* C17: after a completed vulnerability sync every vulnerability listed for
\* the scanner asset has a local row, whatever its severity, and the row's
\* severity is the listed one in the fixed vocabulary.
C17_SeverityNormalized ==
    (call.op = "sync_vulnerabilities" /\ reply.status = 200) =>
        \A i \in DOMAIN scanner.vulns[1] :
            LET v == scanner.vulns[1][i]
            IN  /\ \E row \in vulns : row.rapid7_vuln_id = v.id
                /\ \A row \in vulns :
                    row.rapid7_vuln_id = v.id =>
                        row.severity = NormalizedSeverity(v.severity)


\* ---------------------------------------------------------------------
\* Concurrent sync runs.  The endpoints are plain defs, so every request
\* runs on a worker thread with a session of its own, and what a session
\* has not committed no other session sees.  A run is a sequence of
\* steps, each statement reading the rows committed at its moment.  Asset
\* sync: the listing request, per record the lookup by IP address and the
\* write with its commit, and the answer.  Vulnerability sync: the listing
\* request, per record the lookup by IP address, the creation of the local
\* asset, per vulnerability the lookup and the change held in the session,
\* the commit, and the answer.  The session of database.SessionLocal is
\* taken not to autoflush, so the added and changed vulnerability rows
\* reach the store with the commit.

MaxWorkers == 2

Workers == 1..MaxWorkers

\* The UPDATE the unit of work sends for a changed object: it sets the
\* columns whose assigned value differs from the value that was loaded,
\* and leaves the others as the store holds them now.
orm_update(loaded, assigned, stored) ==
    [c \in DOMAIN stored |->
        IF assigned[c] # loaded[c] THEN assigned[c] ELSE stored[c]]

\* The thread of worker p starts a run: admin check, listing request
\* (answered with the scanner's listing), Query(Team).first().
sync_assets_begin(p, u, team) ==
    /\ p \notin DOMAIN runs
    /\ team \in first(teams)
    /\ IF ~u.is_admin
        THEN /\ call' = [op |-> "sync_assets_begin", actor |-> u, at |-> now,
                         worker |-> p]
             /\ reply' = Reply(403, "Admin privileges required")
             /\ UNCHANGED runs
        ELSE IF team = NoRow
            THEN /\ call' = [op |-> "sync_assets_begin", actor |-> u, at |-> now,
                             worker |-> p]
                 /\ reply' = Reply(500, "No default team found")
                 /\ UNCHANGED runs
        ELSE /\ runs' = [q \in DOMAIN runs \cup {p} |->
                    IF q = p
                        THEN [pc |-> "lookup", actor |-> u, team_id |-> team.id,
                              todo |-> scanner.assets, found |-> {},
                              st |-> RunState({}, 0)]
                        ELSE runs[q]]
             /\ UNCHANGED <<call, reply>>
    /\ UNCHANGED <<teams, users, assets, vulns, nextId, now, exchanges, scanner>>

\* Top of the loop body to the lookup: a record without an IP address is
\* passed over, a dead session raises, otherwise the rows with the record's
\* IP address that are committed at this moment are read.
sync_assets_lookup(p) ==
    /\ p \in DOMAIN runs
    /\ runs[p].pc = "lookup"
    /\ runs[p].todo # << >>
    /\ LET run == runs[p]
           r == Head(run.todo)
       IN  runs' = [runs EXCEPT ![p] =
                IF r.json # "object"
                    THEN [run EXCEPT !.st.aborted = TRUE, !.todo = << >>]
                ELSE IF Falsy(r.ip)
                    THEN [run EXCEPT !.todo = Tail(@)]
                ELSE IF ~run.st.active
                    THEN [run EXCEPT !.todo = Tail(@),
                            !.st = asset_error(@, r.ip, "PendingRollbackError")]
                ELSE [run EXCEPT !.pc = "write",
                        !.found = {a \in assets : a.ip_address = r.ip}]]
    /\ UNCHANGED <<teams, users, assets, vulns, nextId, now, call, reply,
                   exchanges, scanner>>

\* From the lookup's result to db.commit(): the create branch or the
\* update branch, chosen by what the lookup found, and the commit against
\* the rows that are committed now.  The update branch assigns to the row
\* as the lookup loaded it; its UPDATE goes to the row with that id and
\* fails (StaleDataError) when the row is gone.
sync_assets_write(p) ==
    /\ p \in DOMAIN runs
    /\ runs[p].pc = "write"
    /\ \E existing_asset \in first(runs[p].found) :
       LET run == runs[p]
           r == Head(run.todo)
           st == [run.st EXCEPT !.rows = assets, !.next = nextId.asset]
           after ==
                IF run.found = {}
                    THEN commit_asset(
                            [st EXCEPT !.synced_count = @ + 1, !.next = @ + 1],
                            new_asset(st.next, r, run.actor, run.team_id),
                            r.ip)
                ELSE IF ~HasRow(assets, existing_asset.id)
                    THEN asset_error(
                            [st EXCEPT !.synced_count = @ + 1, !.active = FALSE],
                            r.ip, "StaleDataError")
                ELSE commit_asset(
                        [st EXCEPT !.synced_count = @ + 1],
                        orm_update(existing_asset,
                                   existing_asset_update(existing_asset, r),
                                   RowById(assets, existing_asset.id)),
                        r.ip)
       IN  /\ assets' = after.rows
           /\ nextId' = [nextId EXCEPT !.asset = after.next]
           /\ runs' = [runs EXCEPT ![p] =
                        [run EXCEPT !.pc = "lookup", !.todo = Tail(@),
                                    !.found = {},
                                    !.st = [after EXCEPT !.rows = {}, !.next = 0]]]
    /\ UNCHANGED <<teams, users, vulns, now, call, reply, exchanges, scanner>>

\* The loop is through: the report is returned and the thread is free.
sync_assets_end(p) ==
    /\ p \in DOMAIN runs
    /\ runs[p].pc = "lookup"
    /\ runs[p].todo = << >>
    /\ now' = now + 1
    /\ call' = [op |-> "sync_assets_end", actor |-> runs[p].actor, at |-> now',
                worker |-> p]
    /\ reply' = IF runs[p].st.aborted
                    THEN Reply(500, "'NoneType' object has no attribute 'get'")
                    ELSE Reply(200, sync_report("Asset sync completed", runs[p].st))
    /\ runs' = [q \in DOMAIN runs \ {p} |-> runs[q]]
    /\ UNCHANGED <<teams, users, assets, vulns, nextId, exchanges, scanner>>

\* The thread of worker p starts a vulnerability run: admin check,
\* connectivity test and listing request, both answered by the scanner.
\* changed holds, per vulnerability row the session has changed, the row as
\* it was loaded and as the session holds it.
sync_vulnerabilities_begin(p, u) ==
    /\ p \notin DOMAIN runs
    /\ IF ~u.is_admin
        THEN /\ call' = [op |-> "sync_vulnerabilities_begin", actor |-> u,
                         at |-> now, worker |-> p]
             /\ reply' = Reply(403, "Admin privileges required")
             /\ UNCHANGED runs
        ELSE /\ runs' = [q \in DOMAIN runs \cup {p} |->
                    IF q = p
                        THEN [pc |-> "find_asset", actor |-> u,
                              todo |-> scanner.assets, found |-> {},
                              local_id |-> 0, vtodo |-> << >>, changed |-> {},
                              st |-> VulnRunState({}, 0, {}, 0)]
                        ELSE runs[q]]
             /\ UNCHANGED <<call, reply>>
    /\ UNCHANGED <<teams, users, assets, vulns, nextId, now, exchanges, scanner>>

\* Top of the body of "for asset in assets" to the lookup of the local
\* asset: a record without id or IP address is passed over, a dead session
\* raises, otherwise the rows with the record's IP address that are
\* committed at this moment are read.
sync_vulnerabilities_find_asset(p) ==
    /\ p \in DOMAIN runs
    /\ runs[p].pc = "find_asset"
    /\ runs[p].todo # << >>
    /\ LET run == runs[p]
           r == Head(run.todo)
       IN  runs' = [runs EXCEPT ![p] =
                IF r.json # "object"
                    THEN [run EXCEPT !.st.aborted = TRUE, !.todo = << >>]
                ELSE IF r.id = 0 \/ Falsy(r.ip)
                    THEN [run EXCEPT !.todo = Tail(@)]
                ELSE IF ~run.st.active
                    THEN [run EXCEPT !.todo = Tail(@),
                            !.st = asset_error(@, r.ip, "PendingRollbackError")]
                ELSE [run EXCEPT !.pc = "create_asset",
                        !.found = {a \in assets : a.ip_address = r.ip}]]
    /\ UNCHANGED <<teams, users, assets, vulns, nextId, now, call, reply,
                   exchanges, scanner>>

\* From the lookup's result to the vulnerability listing of the record:
\* the row the lookup came back with is the local asset, or, when it found
\* none, Query(Team).first(), models.Asset(...), db.add and db.commit
\* against the rows that are committed now.  Without a team the record is
\* passed over; a refused INSERT ends the record.
sync_vulnerabilities_create_asset(p) ==
    /\ p \in DOMAIN runs
    /\ runs[p].pc = "create_asset"
    /\ \E local_asset \in first(runs[p].found), default_team \in first(teams) :
       LET run == runs[p]
           r == Head(run.todo)
           st == [run.st EXCEPT !.rows = assets, !.next = nextId.asset]
           after ==
                IF run.found # {} \/ default_team = NoRow
                    THEN st
                    ELSE commit_asset(
                            [st EXCEPT !.next = @ + 1],
                            new_asset(st.next, r, run.actor, default_team.id),
                            r.ip)
           proceeds == run.found # {} \/ (default_team # NoRow /\ after.active)
       IN  /\ assets' = after.rows
           /\ nextId' = [nextId EXCEPT !.asset = after.next]
           /\ runs' = [runs EXCEPT ![p] =
                [run EXCEPT
                    !.pc = IF proceeds THEN "vulnerabilities" ELSE "find_asset",
                    !.todo = IF proceeds THEN @ ELSE Tail(@),
                    !.found = {},
                    !.local_id = IF run.found # {} THEN local_asset.id
                                                  ELSE st.next,
                    !.vtodo = IF proceeds THEN asset_vulnerabilities(r.id)
                                          ELSE << >>,
                    !.st = [after EXCEPT !.rows = {}, !.next = 0]]]
    /\ UNCHANGED <<teams, users, vulns, now, call, reply, exchanges, scanner>>

\* One pass of the body of "for vuln in vulnerabilities": the lookup reads
\* the rows committed at this moment, a row the session has changed coming
\* back as the session holds it; the added or changed row stays in the
\* session.
sync_vulnerabilities_record(p) ==
    /\ p \in DOMAIN runs
    /\ runs[p].pc = "vulnerabilities"
    /\ runs[p].vtodo # << >>
    /\ LET run == runs[p]
           held(row) == {m \in run.changed : m.loaded.id = row.id}
           session == UNION {IF held(row) = {} THEN {row}
                                ELSE {m.assigned : m \in held(row)} : row \in vulns}
       IN  \E next \in sync_vuln_record(
                            [run.st EXCEPT !.vrows = session, !.vwork = session],
                            Head(run.vtodo), run.local_id, FALSE, now + 1) :
            runs' = [runs EXCEPT ![p] =
                [run EXCEPT
                    !.vtodo = Tail(@),
                    !.changed =
                        {m \in @ : \A row \in next.vwork \ session :
                                        row.id # m.loaded.id}
                        \cup {[loaded |->
                                    IF \E m \in run.changed : m.loaded.id = row.id
                                        THEN (CHOOSE m \in run.changed :
                                                m.loaded.id = row.id).loaded
                                        ELSE RowById(vulns, row.id),
                               assigned |-> row] : row \in next.vwork \ session},
                    !.st = [next EXCEPT !.vrows = {}, !.vwork = {}]]]
    /\ UNCHANGED <<teams, users, assets, vulns, nextId, now, call, reply,
                   exchanges, scanner>>

\* db.commit() after the vulnerability loop of one record, against the
\* rows that are committed now: the UPDATEs of the changed rows, each to
\* the row with its id (StaleDataError when the row is gone), and the
\* INSERTs of the added rows.
sync_vulnerabilities_commit(p) ==
    /\ p \in DOMAIN runs
    /\ runs[p].pc = "vulnerabilities"
    /\ runs[p].vtodo = << >>
    /\ LET run == runs[p]
           r == Head(run.todo)
           held(row) == {m \in run.changed : m.loaded.id = row.id}
           written == UNION {IF held(row) = {} THEN {row}
                                ELSE {orm_update(m.loaded, m.assigned, row) :
                                        m \in held(row)} : row \in vulns}
           st == [run.st EXCEPT !.vrows = vulns, !.vwork = written,
                                !.vnext = nextId.vuln]
           done ==
                IF \E m \in run.changed : ~HasRow(vulns, m.loaded.id)
                    THEN asset_error(
                            [st EXCEPT !.active = FALSE, !.vwork = vulns,
                                       !.vnew = << >>],
                            r.ip, "StaleDataError")
                    ELSE commit_vulns(st, r.ip)
       IN  /\ vulns' = done.vrows
           /\ nextId' = [nextId EXCEPT !.vuln = done.vnext]
           /\ runs' = [runs EXCEPT ![p] =
                [run EXCEPT !.pc = "find_asset", !.todo = Tail(@),
                            !.changed = {},
                            !.st = [done EXCEPT !.vrows = {}, !.vwork = {},
                                                !.vnew = << >>, !.vnext = 0]]]
    /\ UNCHANGED <<teams, users, assets, now, call, reply, exchanges, scanner>>

\* The loop is through: the report is returned and the thread is free.
sync_vulnerabilities_end(p) ==
    /\ p \in DOMAIN runs
    /\ runs[p].pc = "find_asset"
    /\ runs[p].todo = << >>
    /\ now' = now + 1
    /\ call' = [op |-> "sync_vulnerabilities_end", actor |-> runs[p].actor,
                at |-> now', worker |-> p]
    /\ reply' = IF runs[p].st.aborted
                    THEN Reply(500, "'NoneType' object has no attribute 'get'")
                    ELSE Reply(200, sync_report("Vulnerability sync completed",
                                                runs[p].st))
    /\ runs' = [q \in DOMAIN runs \ {p} |-> runs[q]]
    /\ UNCHANGED <<teams, users, assets, vulns, nextId, exchanges, scanner>>

\* The scanner lists up to two records that the store accepts, every one
\* with one vulnerability.
InitSyncConcurrent ==
    /\ teams = InitTeams
    /\ users = InitUsers
    /\ assets = {}
    /\ vulns = {}
    /\ nextId = [team |-> 3, user |-> 3, asset |-> 1, vuln |-> 1]
    /\ now = 0
    /\ call = Idle
    /\ reply = Idle
    /\ exchanges = << >>
    /\ runs = NoRuns
    /\ \E listing \in SeqsUpTo({r \in AssetRecordInputs :
                                    r.json = "object" /\ r.hostName # Null}, 2) :
        scanner = [assets |-> listing,
                   vulns |-> [id \in ScannerAssetIds |->
                                <<[id |-> "v1", title |-> "XSS",
                                   severity |-> "Critical"]>>]]

NextSyncConcurrent ==
    \/ /\ now + Cardinality(DOMAIN runs) < MaxSyncRuns
       /\ \E p \in Workers, u \in users, team \in first(teams) :
            sync_assets_begin(p, u, team)
    \/ \E p \in Workers : sync_assets_lookup(p)
    \/ \E p \in Workers : sync_assets_write(p)
    \/ \E p \in Workers : sync_assets_end(p)
    \/ /\ now + Cardinality(DOMAIN runs) < MaxSyncRuns
       /\ \E p \in Workers, u \in users : sync_vulnerabilities_begin(p, u)
    \/ \E p \in Workers : sync_vulnerabilities_find_asset(p)
    \/ \E p \in Workers : sync_vulnerabilities_create_asset(p)
    \/ \E p \in Workers : sync_vulnerabilities_record(p)
    \/ \E p \in Workers : sync_vulnerabilities_commit(p)
    \/ \E p \in Workers : sync_vulnerabilities_end(p)

SpecSyncConcurrent == InitSyncConcurrent /\ [][NextSyncConcurrent]_vars

\* C18: whatever the interleaving of the steps of the sync runs, once no
\* run is in progress there is exactly one local asset for every listed IP
\* address, and no two vulnerability rows have the same asset and the same
\* scanner id.
C18_OneRowPerNaturalKey ==
    (/\ DOMAIN runs = {}
     /\ call.op \in {"sync_assets_end", "sync_vulnerabilities_end"}) =>
        /\ \A i \in DOMAIN scanner.assets :
            HasIp(scanner.assets[i]) =>
                LocalAssetsWithIp(assets, scanner.assets[i].ip) = 1
        /\ \A x \in vulns :
            VulnRowsOf(vulns, x.asset_id, x.rapid7_vuln_id) = {x}


\* The ids reached from team id by following parent_team_id at most n
\* times, id itself not counted unless the chain comes back to it.
RECURSIVE AncestorsWithin(_, _)
AncestorsWithin(id, n) ==
    IF n = 0
        THEN {}
        ELSE LET parents == {t.parent_team_id : t \in {x \in teams : x.id = id}}
                                \ {NoTeam}
             IN  parents \cup UNION {AncestorsWithin(q, n - 1) : q \in parents}

\* C19: no team is its own parent or its own ancestor, whatever teams were
\* created, updated and deleted (a reparent that would close a cycle is
\* refused).
C19_TeamParentsAcyclic ==
    \A t \in teams : t.id \notin AncestorsWithin(t.id, Cardinality(teams))


\* ---------------------------------------------------------------------
\* Teams, assets and sync runs together: administrators create, reparent
\* and delete teams, move the users to the second team, create, update and
\* delete assets, and run both syncs against a scanner with one asset.

InitOwnership ==
    /\ teams = InitTeams
    /\ users = InitUsers
    /\ assets = {}
    /\ vulns = {}
    /\ nextId = [team |-> 3, user |-> 3, asset |-> 1, vuln |-> 1]
    /\ now = 0
    /\ call = Idle
    /\ reply = Idle
    /\ exchanges = << >>
    /\ runs = NoRuns
    /\ scanner = [assets |-> <<ScannerAsset(2, "10.0.0.2", Absent)>>,
                  vulns |-> << >>]

\* Bodies of asset requests: the address the scanner lists, every team id
\* up to the third.
OwnershipAssetInputs ==
    [name : {"srv"}, ip_address : {"10.0.0.2"}, os_version : {"Linux"},
     team_id : {1, 2, 3}, owner_id : {NoTeam}]

\* The scanner answers every request of these runs with its listing.
Answered ==
    CHOOSE x \in ScannerReplies : x.kind = "response" /\ x.status = 200

NextOwnership ==
    \/ \E u \in Admins, t \in NewTeamInputs :
        /\ nextId.team <= MaxTeams
        /\ t.parent_team_id = NoTeam
        /\ create_team(u, t)
    \/ \E u \in Admins, t \in ReparentInputs(2) : update_team(u, 2, t)
    \/ \E u \in Admins, id \in 1..MaxTeams : delete_team(u, id)
    \/ \E u \in Admins : update_user(u, u.id, NoTeam)
    \/ \E u \in Admins, a \in OwnershipAssetInputs :
        /\ nextId.asset <= MaxTeamAssets
        /\ create_asset(u, a)
    \/ \E u \in Admins, r \in assets, a \in OwnershipAssetInputs :
        update_asset(u, r.id, a)
    \/ \E u \in Admins, r \in assets : delete_asset(u, r.id)
    \/ /\ now < MaxSyncRuns
       /\ \E u \in Admins, team \in first(teams) :
            sync_insightvm_assets(u, "sync_all", Answered, team)
    \/ /\ now < MaxSyncRuns
       /\ \E u \in Admins, team \in first(teams) :
            sync_insightvm_vulnerabilities(
                [actor |-> u, mode |-> "sync_all", asset_ip |-> "10.0.0.2",
                 info |-> Answered, list |-> Answered, down |-> {},
                 autoflush |-> TRUE, team |-> team])

SpecOwnership == InitOwnership /\ [][NextOwnership]_vars

\* C20: after every operation each asset's team_id is the id of a team that
\* exists, and the assets a sync run creates all get the one team the run
\* took as fallback, a team that exists.
C20_AssetHasExistingTeam ==
    [][
        /\ \A a \in assets' : a.team_id \in {t.id : t \in teams'}
        /\ call'.op \in {"sync_assets", "sync_vulnerabilities"} =>
            \E team \in first(teams) :
                \A a \in assets' :
                    a.id \notin {b.id : b \in assets} => a.team_id = team.id
    ]_vars

\* Reached: the first team was emptied and deleted, a sync run then created
\* an asset in the team that became the first, and deleting that team was
\* refused for its assets.
C20_Witness ==
    /\ call.op = "delete_team"
    /\ reply.status = 400
    /\ reply.body.error = "assets"
    /\ ~HasRow(teams, 1)
    /\ \E a \in assets : a.team_id = call.team_id /\ a.name = "Asset_10.0.0.2"


\* ---------------------------------------------------------------------
\* The review date of assets under every operation that writes table
\* assets: users create, upload, update, review and delete assets, an
\* administrator deletes the user who owns them and runs both syncs against
\* a scanner that lists the address of the hand-made asset.  The instants
\* are readings of datetime.now(), the wall clock of the host without a
\* time zone: it advances, and it is set back (the end of daylight saving
\* time, a correction of the clock).

MaxReviewClock == 2

\* Assets are created, by hand or by a sync, while the ids stay within this
\* bound.
MaxReviewIds == 2

\* The host's clock is set back to t; the next datetime.now() reads t.
ClockSetBack(t) ==
    /\ t < now
    /\ t >= 0
    /\ now' = t
    /\ call' = Idle
    /\ reply' = Idle
    /\ UNCHANGED <<teams, users, assets, vulns, nextId, exchanges, scanner, runs>>

ReviewedAssetInputs ==
    [name : {"db"}, ip_address : {"10.0.0.1"}, os_version : {"Windows"},
     team_id : {1, 2}, owner_id : {2}]

InitReviewedDate ==
    /\ teams = InitTeams
    /\ users = InitUsers
    /\ assets = {}
    /\ vulns = {}
    /\ nextId = [team |-> 3, user |-> 3, asset |-> 1, vuln |-> 1]
    /\ now = 0
    /\ call = Idle
    /\ reply = Idle
    /\ exchanges = << >>
    /\ runs = NoRuns
    /\ scanner = [assets |-> <<ScannerAsset(1, "10.0.0.1", "web")>>,
                  vulns |-> [id \in ScannerAssetIds |->
                                <<[id |-> "v1", title |-> "XSS",
                                   severity |-> "Critical"]>>]]

NextReviewedDate ==
    \/ /\ nextId.asset <= MaxReviewIds
       /\ \E u \in users, a \in ReviewedAssetInputs : create_asset(u, a)
    \/ \E u \in users, r \in assets, a \in ReviewedAssetInputs :
        update_asset(u, r.id, a)
    \/ \E u \in users, r \in assets : mark_asset_reviewed(u, r.id)
    \/ \E u \in users, r \in assets : delete_asset(u, r.id)
    \/ \E u \in Admins : delete_user(u, 2)
    \/ \E u \in Admins, file \in UploadInputs :
        /\ nextId.asset <= MaxReviewIds
        /\ file.rows # << >>
        /\ upload_assets(u, file)
    \/ now < MaxReviewClock /\ Tick(now + 1)
    \/ \E t \in 0..MaxReviewClock : ClockSetBack(t)
    \/ /\ now < MaxSyncRuns
       /\ nextId.asset <= MaxReviewIds
       /\ \E u \in Admins, team \in first(teams) :
            sync_insightvm_assets(u, "sync_all", Answered, team)
    \/ /\ now < MaxSyncRuns
       /\ nextId.asset <= MaxReviewIds
       /\ nextId.vuln <= MaxReviewIds
       /\ \E u \in Admins, team \in first(teams) :
            sync_insightvm_vulnerabilities(
                [actor |-> u, mode |-> "sync_all", asset_ip |-> "10.0.0.1",
                 info |-> Answered, list |-> Answered, down |-> {},
                 autoflush |-> TRUE, team |-> team])

SpecReviewedDate == InitReviewedDate /\ [][NextReviewedDate]_vars

\* C21: in every step, an asset that exists before and after has the
\* last_reviewed_date it had, unless the step is mark_asset_reviewed on
\* that asset, which sets a date that is not earlier than the one it had;
\* and an asset that the step created (create_asset, an upload or either
\* sync) has no last_reviewed_date.
C21_ReviewDateOnlyByReview ==
    [][
        /\ \A a \in assets : \A b \in assets' :
            b.id = a.id =>
                \/ b.last_reviewed_date = a.last_reviewed_date
                \/ /\ call'.op = "mark_asset_reviewed"
                   /\ call'.asset_id = a.id
                   /\ b.last_reviewed_date >= a.last_reviewed_date
        /\ \A b \in assets' :
            b.id \notin {a.id : a \in assets} => b.last_reviewed_date = NoDate
    ]_vars


\* ---------------------------------------------------------------------
\* Responses of the scanner that are not JSON.

\* C22: a request that the scanner answers with a success status (2xx) and
\* a body that is not JSON returns an error value, not a success value.
C22_MalformedResponseIsError ==
    \A i \in 1..Len(exchanges) :
        (/\ exchanges[i][1].kind = "response"
         /\ exchanges[i][1].status \in 200..299
         /\ exchanges[i][1].body = "text")
            => exchanges[i][2].tag = "error"


\* ---------------------------------------------------------------------
\* Vulnerability sync over records with descriptions: the scanner lists
\* one asset whose vulnerabilities carry descriptions of lengths around
\* the cap, no description, a null description or a null text, and
\* severities in mixed case.

MaxDescribedRecords == 2

DescriptionInputs ==
    {NoDescription,
     [json |-> "null", text |-> "absent", len |-> 0],
     [json |-> "object", text |-> "absent", len |-> 0],
     [json |-> "object", text |-> "null", len |-> 0]}
    \cup [json : {"object"}, text : {"string"}, len : {999, 1000, 1001}]

CvssInputs ==
    {NoCvss, [json |-> "object", v3 |-> "object", score |-> 7]}

DescribedRecordInputs ==
    {v \in [id : {"v1", "v2"}, title : {"XSS"},
            severity : {Absent, "Critical", "SEVERE"},
            description : DescriptionInputs, cvss : CvssInputs] :
        /\ v.id = "v2" =>
            v.severity = "SEVERE" /\ v.cvss = NoCvss /\ v.description = NoDescription
        /\ v.severity = "Critical" <=> v.cvss # NoCvss
        /\ v.severity = Absent => v.description = NoDescription
        /\ v.cvss # NoCvss => v.description.text = "string"}

InitSyncDescription ==
    /\ teams = InitTeams
    /\ users = InitUsers
    /\ assets = {}
    /\ vulns = {}
    /\ nextId = [team |-> 3, user |-> 3, asset |-> 1, vuln |-> 1]
    /\ now = 0
    /\ call = Idle
    /\ reply = Idle
    /\ exchanges = << >>
    /\ runs = NoRuns
    /\ \E found \in SeqsUpTo(DescribedRecordInputs, MaxDescribedRecords) :
        scanner = [assets |-> <<ScannerAsset(1, "10.0.0.1", Absent)>>,
                   vulns |-> [id \in ScannerAssetIds |-> found]]

\* A run, or the scanner's findings change between runs.
NextSyncDescription ==
    \/ /\ now < MaxSyncRuns
       /\ \E u \in Admins, autoflush \in BOOLEAN, team \in first(teams) :
            sync_insightvm_vulnerabilities(
                [actor |-> u, mode |-> "sync_all", asset_ip |-> "10.0.0.1",
                 info |-> Answered, list |-> Answered, down |-> {},
                 autoflush |-> autoflush, team |-> team])
    \/ /\ now = 1
       /\ call.op = "sync_vulnerabilities"
       /\ \E v \in DescribedRecordInputs :
            /\ v.id = "v1"
            /\ scanner' = [scanner EXCEPT !.vulns =
                                [id \in ScannerAssetIds |-> <<v>>]]
            /\ call' = Idle
            /\ reply' = Idle
            /\ UNCHANGED <<teams, users, assets, vulns, nextId, now, exchanges, runs>>

SpecSyncDescription == InitSyncDescription /\ [][NextSyncDescription]_vars

\* The severities as str.lower() leaves them.
LowerCased == {"critical", "severe", "moderate", "unknown", "low", "informational"}

\* C23: after a vulnerability sync, every vulnerability row the run created
\* has a lower-cased severity, status "open", and discovered_date and
\* last_seen both at the time of the run; and every row of table
\* vulnerabilities, created or updated, has a description of at most 1000
\* characters.
C23_SyncedVulnerabilityFields ==
    [][
        call'.op = "sync_vulnerabilities" =>
            /\ \A n \in vulns' :
                n.id \notin {o.id : o \in vulns} =>
                    /\ n.severity \in LowerCased
                    /\ n.status = "open"
                    /\ n.discovered_date = now'
                    /\ n.last_seen = now'
            /\ \A n \in vulns' : n.description <= 1000
    ]_vars

\* Reached: a second run has replaced a description by one that the
\* scanner gives with more than 1000 characters, and the row holds 1000;
\* the row's severity came in upper case.
C23_Witness ==
    /\ call.op = "sync_vulnerabilities"
    /\ reply.status = 200
    /\ now = 2
    /\ \E n \in vulns :
        /\ n.description = 1000
        /\ n.discovered_date = 1
        /\ n.last_seen = 2
        /\ n.severity = "severe"
        /\ \E v \in {scanner.vulns[1][k] : k \in DOMAIN scanner.vulns[1]} :
            v.id = n.rapid7_vuln_id /\ v.description.len > 1000


\* ---------------------------------------------------------------------
\* Team deletion against a store that other requests write to.  The
\* handler runs on a worker thread and every statement it sends reads the
\* rows committed at that moment: the lookup, the query of each of the
\* three guards of crud.delete_team, and, in the flush of db.delete and
\* db.commit, the SELECT of each relationship of Team (assets, users,
\* sub_teams) and then the UPDATEs of the loaded rows, the DELETE and the
\* COMMIT.  Between any two of them other requests commit, among them the
\* deletion of the same team on another worker.  From its first UPDATE on
\* the flush holds the locks of the rows it writes, so the UPDATEs, the
\* DELETE and the COMMIT are one step.

\* The flush of db.delete(db_team) with a failure leaving what it had
\* written: the users whose team reference it had set to NULL stay so.
delete_team_flush_no_rollback(team_id, refused, loaded) ==
    LET nulled_users ==
            {IF x.id \in loaded.users THEN [x EXCEPT !.team_id = NoTeam] ELSE x :
                x \in users}
        nulled_teams ==
            {IF t.id \in loaded.sub_teams
                THEN [t EXCEPT !.parent_team_id = NoTeam] ELSE t : t \in teams}
        stale ==
            \/ \E id \in loaded.sub_teams : ~HasRow(teams, id)
            \/ \E id \in loaded.users : ~HasRow(users, id)
            \/ \E id \in loaded.assets : ~HasRow(assets, id)
        referenced ==
            \/ \E a \in assets : a.team_id = team_id
            \/ \E x \in nulled_users : x.team_id = team_id
            \/ \E t \in nulled_teams : t.parent_team_id = team_id
    IN  IF stale
            THEN [ok |-> FALSE, e |-> "StaleDataError", teams |-> teams,
                  users |-> nulled_users]
        ELSE IF loaded.assets # {} \/ referenced
            THEN [ok |-> FALSE, e |-> "IntegrityError", teams |-> teams,
                  users |-> nulled_users]
        ELSE IF refused
            THEN [ok |-> FALSE, e |-> "OperationalError", teams |-> teams,
                  users |-> nulled_users]
        ELSE [ok |-> TRUE, e |-> "",
              teams |-> {t \in nulled_teams : t.id # team_id},
              users |-> nulled_users]

\* The writing part of the flush of db.delete(db_team), db.commit() and
\* the rollback of the except clause, against the rows committed at this
\* moment.  loaded holds the ids of the rows that the relationships of
\* Team came back with.  Every loaded row gets its reference emptied by an
\* UPDATE to the row with its id, whatever the row holds by now
\* (StaleDataError when the row is gone); emptying assets.team_id (NOT
\* NULL) is refused.  The DELETE of the team row is refused while a row
\* that was not loaded references the team; refused stands for any other
\* refusal of the store (a lost connection).  A refusal leaves the store
\* as it was.  A DELETE that matches no row, the team having been deleted
\* since the lookup, is no refusal: the commit succeeds.
delete_team_flush(team_id, refused, loaded) ==
    LET nulled_users ==
            {IF x.id \in loaded.users THEN [x EXCEPT !.team_id = NoTeam] ELSE x :
                x \in users}
        nulled_teams ==
            {IF t.id \in loaded.sub_teams
                THEN [t EXCEPT !.parent_team_id = NoTeam] ELSE t : t \in teams}
        stale ==
            \/ \E id \in loaded.sub_teams : ~HasRow(teams, id)
            \/ \E id \in loaded.users : ~HasRow(users, id)
            \/ \E id \in loaded.assets : ~HasRow(assets, id)
        referenced ==
            \/ \E a \in assets : a.team_id = team_id
            \/ \E x \in nulled_users : x.team_id = team_id
            \/ \E t \in nulled_teams : t.parent_team_id = team_id
    IN  IF stale
            THEN [ok |-> FALSE, e |-> "StaleDataError", teams |-> teams,
                  users |-> users]
        ELSE IF loaded.assets # {} \/ referenced
            THEN [ok |-> FALSE, e |-> "IntegrityError", teams |-> teams,
                  users |-> users]
        ELSE IF refused
            THEN [ok |-> FALSE, e |-> "OperationalError", teams |-> teams,
                  users |-> users]
        ELSE [ok |-> TRUE, e |-> "",
              teams |-> {t \in nulled_teams : t.id # team_id},
              users |-> nulled_users]

\* DELETE /teams/{team_id}/ up to the first query of crud.delete_team: the
\* admin check and the lookup of the team row.  pending lists the
\* relationships of Team that the flush of the deletion is to load, in the
\* order in which the unit of work visits them: the order of their
\* declaration in the class.
delete_team_lookup(p, u, team_id) ==
    /\ p \notin DOMAIN runs
    /\ IF ~u.is_admin \/ ~HasRow(teams, team_id)
        THEN /\ call' = [op |-> "delete_team", actor |-> u,
                         team_id |-> team_id, at |-> now]
             /\ reply' =
                    IF ~u.is_admin
                        THEN Reply(403, "Not enough permissions")
                        ELSE Reply(500, "Internal server error: 404: Team not found")
             /\ UNCHANGED runs
        ELSE /\ runs' = [q \in DOMAIN runs \cup {p} |->
                    IF q = p
                        THEN [pc |-> "sub-teams", actor |-> u, team_id |-> team_id,
                              pending |-> <<"assets", "users", "sub_teams">>,
                              loaded |-> [assets |-> {}, users |-> {},
                                          sub_teams |-> {}]]
                        ELSE runs[q]]
             /\ UNCHANGED <<call, reply>>
    /\ UNCHANGED <<teams, users, assets, vulns, nextId, now, exchanges, scanner>>

\* One guard of crud.delete_team, its query answered from the rows
\* committed at this moment: get_sub_teams, the count of the team's assets,
\* the count of its users.  The ValueError of a guard is answered 400.
delete_team_guard(p) ==
    /\ p \in DOMAIN runs
    /\ runs[p].pc \in {"sub-teams", "assets", "users"}
    /\ LET team_id == runs[p].team_id
           sub_teams == get_sub_teams(team_id)
           assets_count == Cardinality({a \in assets : a.team_id = team_id})
           users_count == Cardinality({x \in users : x.team_id = team_id})
           error ==
               IF runs[p].pc = "sub-teams"
                   THEN IF sub_teams # {}
                       THEN [error |-> "sub-teams",
                             names |-> {t.name : t \in sub_teams}, count |-> 0]
                       ELSE [error |-> "none", names |-> {}, count |-> 0]
               ELSE IF runs[p].pc = "assets"
                   THEN IF assets_count > 0
                       THEN [error |-> "assets", names |-> {},
                             count |-> assets_count]
                       ELSE [error |-> "none", names |-> {}, count |-> 0]
               ELSE IF users_count > 0
                   THEN [error |-> "users", names |-> {}, count |-> users_count]
                   ELSE [error |-> "none", names |-> {}, count |-> 0]
       IN  IF error.error # "none"
               THEN /\ call' = [op |-> "delete_team", actor |-> runs[p].actor,
                                team_id |-> team_id, at |-> now]
                    /\ reply' = Reply(400, error)
                    /\ runs' = [q \in DOMAIN runs \ {p} |-> runs[q]]
               ELSE /\ runs' = [runs EXCEPT ![p].pc =
                                    IF @ = "sub-teams" THEN "assets"
                                    ELSE IF @ = "assets" THEN "users"
                                    ELSE "delete"]
                    /\ UNCHANGED <<call, reply>>
    /\ UNCHANGED <<teams, users, assets, vulns, nextId, now, exchanges, scanner>>

\* db.delete(db_team); db.commit(), the reading part of the flush: the
\* unit of work loads the next relationship of the team, a SELECT of the
\* rows that reference the team at this moment.
delete_team_load(p) ==
    /\ p \in DOMAIN runs
    /\ runs[p].pc = "delete"
    /\ runs[p].pending # << >>
    /\ LET team_id == runs[p].team_id
           relationship == Head(runs[p].pending)
           rows == IF relationship = "assets"
                       THEN {a \in assets : a.team_id = team_id}
                   ELSE IF relationship = "users"
                       THEN {x \in users : x.team_id = team_id}
                   ELSE get_sub_teams(team_id)
       IN  runs' = [runs EXCEPT
                        ![p].pending = Tail(@),
                        ![p].loaded[relationship] = {r.id : r \in rows}]
    /\ UNCHANGED <<teams, users, assets, vulns, nextId, now, call, reply,
                   exchanges, scanner>>

\* The writing part of the flush, the commit and the answer of
\* main.delete_team: the ValueError of the except clause is answered 400.
delete_team_commit(p, refused) ==
    /\ p \in DOMAIN runs
    /\ runs[p].pc = "delete"
    /\ runs[p].pending = << >>
    /\ \E done \in {delete_team_flush(runs[p].team_id, refused,
                                      runs[p].loaded)} :
        /\ teams' = done.teams
        /\ users' = done.users
        /\ call' = [op |-> "delete_team_commit", actor |-> runs[p].actor,
                    team_id |-> runs[p].team_id, at |-> now, worker |-> p,
                    refused |-> refused, loaded |-> runs[p].loaded]
        /\ reply' =
            IF done.ok
                THEN Reply(200, "Team deleted successfully")
                ELSE Reply(400, [error |-> "Database error during deletion",
                                 names |-> {}, count |-> 0, e |-> done.e])
    /\ runs' = [q \in DOMAIN runs \ {p} |-> runs[q]]
    /\ UNCHANGED <<assets, vulns, nextId, now, exchanges, scanner>>

\* Deletions of the second team that init_data commits, on the worker
\* threads, step by step, interleaved with requests that move the second
\* user between the teams of init_data, create a sub-team while there is
\* none, and create an asset while there is none.  The first team holds
\* the administrator, whom no request here moves: its deletion would stop
\* at the guard on users every time.
NextDeleteRace ==
    \/ \E p \in Workers, u \in users, t \in {r \in InitTeams : r.id # 1} :
        delete_team_lookup(p, u, t.id)
    \/ \E p \in Workers : delete_team_guard(p)
    \/ \E p \in Workers : delete_team_load(p)
    \/ \E p \in Workers, refused \in BOOLEAN : delete_team_commit(p, refused)
    \/ \E u \in Admins, team_id \in {NoTeam, 1, 2} :
        update_user(u, 2, team_id)
    \/ \E u \in Admins, t \in NewTeamInputs :
        /\ nextId.team <= MaxTeams
        /\ t.parent_team_id # NoTeam
        /\ \A r \in teams : r.parent_team_id = NoTeam
        /\ create_team(u, t)
    \/ \E u \in Admins, a \in TeamAssetInputs :
        /\ nextId.asset <= MaxTeamAssets
        /\ assets = {}
        /\ create_asset(u, a)

SpecDeleteRace == InitStore /\ [][NextDeleteRace]_vars

\* C24: when the store fails in the writing step of a team deletion that
\* passed all guards (a row that references the team was committed after
\* the guards and, if a user or a sub-team, after the flush had loaded the
\* rows it empties, or the store refuses the commit), the request is
\* answered with an error, the team row is still there, and no row of any
\* table has changed.
C24_DeleteTeamTransactional ==
    [][
        (/\ call'.op = "delete_team_commit"
         /\ HasRow(teams, call'.team_id)
         /\ \/ call'.refused
            \/ \E a \in assets : a.team_id = call'.team_id
            \/ \E x \in users :
                x.team_id = call'.team_id /\ x.id \notin call'.loaded.users
            \/ \E t \in teams :
                /\ t.parent_team_id = call'.team_id
                /\ t.id \notin call'.loaded.sub_teams) =>
            /\ reply'.status >= 400
            /\ HasRow(teams', call'.team_id)
            /\ UNCHANGED <<teams, users, assets, vulns>>
    ]_vars

\* Reached: the team passed the guards, then an asset was created in it
\* and the second user was moved into it, the flush loaded that user to
\* empty its reference, and the writing step was refused.
C24_Witness ==
    /\ call.op = "delete_team_commit"
    /\ reply.status = 400
    /\ HasRow(teams, call.team_id)
    /\ \E a \in assets : a.team_id = call.team_id
    /\ \E x \in users : x.team_id = call.team_id /\ x.id \in call.loaded.users


\* ---------------------------------------------------------------------
\* The connection test of src/test_insightvm.py: with credentials
\* configured it builds a client and asks it to test the connection.

\* test_insightvm_connection(): True when the client reports "connected".
test_insightvm_connection(configured, x) ==
    /\ Len(exchanges) < MaxExchanges
    /\ call' = [op |-> "test_connection", configured |-> configured,
                outcome |-> x, at |-> now]
    /\ IF ~configured
        THEN /\ reply' = Reply(0, [status |-> "not configured", ok |-> FALSE])
             /\ UNCHANGED exchanges
        ELSE /\ exchanges' = Append(exchanges, <<x, make_request(x)>>)
             /\ reply' = Reply(0,
                    [status |-> test_connection(x).status,
                     ok |-> test_connection(x).status = "connected"])
    /\ UNCHANGED <<teams, users, assets, vulns, nextId, now, scanner, runs>>

NextConnection ==
    \E configured \in BOOLEAN, x \in HttpOutcomes :
        test_insightvm_connection(configured, x)

SpecConnection == InitStore /\ [][NextConnection]_vars

\* C25: the connection test reports "connected" exactly when the
\* administration/info request was answered with a success status, and
\* "failed" when it was not (401, 403, a timeout, a connection failure, a
\* 5xx).
C25_ConnectedIffRequestSucceeded ==
    (call.op = "test_connection" /\ call.configured) =>
        /\ reply.body.status = "connected" <=>
            (call.outcome.kind = "response" /\ call.outcome.status \in 200..299)
        /\ (\/ call.outcome.kind \in {"timeout", "connection"}
            \/ call.outcome.status \in {401, 403}
            \/ call.outcome.status >= 500) =>
                reply.body.status = "failed"


\* ---------------------------------------------------------------------
\* What a report counts as synced against what the run committed.

\* An upper bound of the writes an asset sync run committed, read from the
\* store: the rows the run inserted, and the listed records whose address
\* has a row that the run stamped.
CommittedWritesAtMost(before, after, listing, t) ==
    Cardinality({b \in after : b.id \notin {a.id : a \in before}})
    + Cardinality({i \in DOMAIN listing :
                    /\ HasIp(listing[i])
                    /\ \E b \in after :
                        b.ip_address = listing[i].ip /\ b.updated_at = t})

\* C26: the synced_count an asset sync reports is not greater than the
\* number of records whose insert or update the run committed; a record
\* whose write the store refused at the commit is not among the synced.
C26_SyncedCountIsCommitted ==
    [][
        (call'.op = "sync_assets" /\ reply'.status = 200) =>
            reply'.body.synced_count
                <= CommittedWritesAtMost(assets, assets', call'.resources, now')
    ]_vars


\* ---------------------------------------------------------------------
\* The team of the assets that users who are not administrators write.

\* C27: after a create_asset or update_asset by a user who is not an
\* administrator, every asset row that the request created or changed
\* belongs to that user's own team.
C27_NonAdminWritesOwnTeamOnly ==
    [][
        (/\ call'.op \in {"create_asset", "update_asset"}
         /\ ~call'.actor.is_admin) =>
            \A b \in assets' :
                b \notin assets => b.team_id = call'.actor.team_id
    ]_vars


\* ---------------------------------------------------------------------
\* The review_status filter of the export against the label of its rows.

\* The Review Status label that goes with a value of the filter.
LabelOfFilter(review_status) ==
    CASE review_status = "never" -> "Never Reviewed"
      [] review_status = "overdue" -> "Overdue"
      [] review_status = "warning" -> "Warning"
      [] review_status = "current" -> "Current"

\* C28: every row of an export that was asked for with a review_status
\* filter carries the Review Status label of that filter, whatever the age
\* of the review, ages of 45 or 60 days and a part of a day included.
C28_ExportFilterMatchesLabel ==
    (call.op = "export_assets" /\ call.review_status # Absent) =>
        /\ reply.status = 200
        /\ \A row \in reply.body :
            row.review_status = LabelOfFilter(call.review_status)


\* ---------------------------------------------------------------------
\* The status of a vulnerability sync that is refused before its loop.

\* C29: a vulnerability sync by an administrator that is refused because
\* neither scope was given is answered 400, one refused for failed
\* connectivity 503, one refused for a failed scope resolution 502, none of
\* them 500, and none of them writes to the store.
C29_SpecificFailureStatus ==
    [][
        (/\ call'.op = "sync_vulnerabilities"
         /\ call'.actor.is_admin
         /\ reply'.status # 200
         /\ reply'.body \in {"Either asset_ip or sync_all must be provided",
                             "InsightVM connection failed",
                             "Failed to get assets from InsightVM",
                             "Failed to search assets by IP"}) =>
            /\ reply'.body = "Either asset_ip or sync_all must be provided"
                => reply'.status = 400
            /\ reply'.body = "InsightVM connection failed"
                => reply'.status = 503
            /\ reply'.body \in {"Failed to get assets from InsightVM",
                                "Failed to search assets by IP"}
                => reply'.status = 502
            /\ UNCHANGED <<assets, vulns>>
    ]_vars


\* ---------------------------------------------------------------------
\* The counters of an asset sync report against the listing.

\* The records of a listing that the loop passes over for want of an IP
\* address.
SkippedNoIp(listing) ==
    Cardinality({i \in DOMAIN listing : ~HasIp(listing[i])})

\* C30: an asset sync run that starts (an administrator's request with a
\* scope) ends with a report, and in the report synced_count and
\* error_count, with the records passed over for want of an IP address,
\* add up to the number of records listed.
C30_CountersAddUp ==
    [][
        (/\ call'.op = "sync_assets"
         /\ call'.actor.is_admin
         /\ call'.scope # "none") =>
            /\ reply'.status = 200
            /\ reply'.body.synced_count + reply'.body.error_count
                    + SkippedNoIp(call'.resources)
                = Len(call'.resources)
    ]_vars

====
